---- MODULE Spec2Model ----
(***************************************************************************)
(* A model of the UNI_p to Lenex converter (hakostra/unip-to-lenex):       *)
(* the UNI_p row parser (src/src/unipParser.ts), the Lenex catalog reader,  *)
(* the cross-validator, the entry builder and the upload/export shell       *)
(* (src/unnamed/part_001).                                                  *)
(*                                                                         *)
(* Text is modelled as a sequence of one-character strings, so that         *)
(* trimming, splitting, upper-casing, number parsing and key concatenation  *)
(* are computed as the code computes them.  A JavaScript null is the empty  *)
(* sequence << >> where the code's value is a number or a non-empty string  *)
(* (distance, eventNumber, qualificationTime, ...): a present number n is   *)
(* << n >>.                                                                 *)
(***************************************************************************)
EXTENDS Integers, Sequences, FiniteSets, TLC

VARIABLES
  field,          \* parseDistance: the raw text of field 2
  distanceInfo,   \* parseDistance: its result, NotRun before the call
  content,        \* parseUniP: the decoded text of the uploaded file
  parseResult,    \* parseUniP: its result, NotRun before the call
  currentYear,    \* new Date().getFullYear()
  checkedRow,     \* cross-validation: the parsed row
  catalog,        \* cross-validation: the loaded meet (LenexMeetSummary)
  matchResult,    \* cross-validation: validation issues and winning event
  lenexSourceXml, lenexSummary, errorMessage,      \* App: the loaded meet
  uniPEncoding, uniPSourceFile,                    \* App: the UNI_p file
  uniPClubName, uniPRows, uniPErrorMessage,        \* App: its parsed content
  conversionWarning, conversionError,              \* App: the export's messages
  pendingLenex, pendingUniP,                       \* App: file reads in flight
  download                                         \* App: the exported file

vars ==
  <<field, distanceInfo, content, parseResult, currentYear, checkedRow, catalog,
    matchResult, lenexSourceXml, lenexSummary, errorMessage, uniPEncoding,
    uniPSourceFile, uniPClubName, uniPRows, uniPErrorMessage, conversionWarning,
    conversionError, pendingLenex, pendingUniP, download>>

NotRun == [state |-> "not run"]

-----------------------------------------------------------------------------
(* Text helpers: what String.prototype.trim / toUpperCase / split and       *)
(* Number() do on the characters of the model.                              *)

Digits == <<"0", "1", "2", "3", "4", "5", "6", "7", "8", "9">>

DigitSet == {Digits[i] : i \in 1..10}

WhiteSpace == {" ", "\t", "\r", "\n"}

LowerChars ==
  <<"a", "b", "c", "d", "e", "f", "g", "h", "i", "j", "k", "l", "m",
    "n", "o", "p", "q", "r", "s", "t", "u", "v", "w", "x", "y", "z">>

UpperChars ==
  <<"A", "B", "C", "D", "E", "F", "G", "H", "I", "J", "K", "L", "M",
    "N", "O", "P", "Q", "R", "S", "T", "U", "V", "W", "X", "Y", "Z">>

UpperChar(c) ==
  IF \E i \in 1..26 : LowerChars[i] = c
    THEN UpperChars[CHOOSE i \in 1..26 : LowerChars[i] = c]
    ELSE c

LowerChar(c) ==
  IF \E i \in 1..26 : UpperChars[i] = c
    THEN LowerChars[CHOOSE i \in 1..26 : UpperChars[i] = c]
    ELSE c

toUpperCase(s) == [i \in 1..Len(s) |-> UpperChar(s[i])]

toLowerCase(s) == [i \in 1..Len(s) |-> LowerChar(s[i])]

RECURSIVE trimStart(_)
trimStart(s) ==
  IF s # << >> /\ Head(s) \in WhiteSpace THEN trimStart(Tail(s)) ELSE s

RECURSIVE trimEnd(_)
trimEnd(s) ==
  IF s # << >> /\ s[Len(s)] \in WhiteSpace
    THEN trimEnd(SubSeq(s, 1, Len(s) - 1))
    ELSE s

trim(s) == trimEnd(trimStart(s))

\* /^\d+$/
IsDigits(s) == s # << >> /\ \A i \in 1..Len(s) : s[i] \in DigitSet

DigitValue(c) == (CHOOSE i \in 1..10 : Digits[i] = c) - 1

\* Number(s) for a string of decimal digits
RECURSIVE Number(_)
Number(s) ==
  IF s = << >> THEN 0
  ELSE 10 * Number(SubSeq(s, 1, Len(s) - 1)) + DigitValue(s[Len(s)])

\* String(n) for a non-negative integer
RECURSIVE String(_)
String(n) ==
  IF n < 10 THEN <<Digits[n + 1]>>
  ELSE String(n \div 10) \o <<Digits[(n % 10) + 1]>>

\* s.split(sep) for a one-character separator
RECURSIVE split(_, _)
split(s, sep) ==
  IF \E i \in 1..Len(s) : s[i] = sep
    THEN LET i == CHOOSE k \in 1..Len(s) :
                    s[k] = sep /\ \A j \in 1..(k - 1) : s[j] # sep
         IN  <<SubSeq(s, 1, i - 1)>> \o split(SubSeq(s, i + 1, Len(s)), sep)
    ELSE <<s>>

\* s.split(/\r?\n/): a "\r" right before the "\n" belongs to the separator
RECURSIVE splitLines(_)
splitLines(s) ==
  IF \E i \in 1..Len(s) : s[i] = "\n"
    THEN LET i == CHOOSE k \in 1..Len(s) :
                    s[k] = "\n" /\ \A j \in 1..(k - 1) : s[j] # "\n"
             e == IF i > 1 /\ s[i - 1] = "\r" THEN i - 2 ELSE i - 1
         IN  <<SubSeq(s, 1, e)>> \o splitLines(SubSeq(s, i + 1, Len(s)))
    ELSE <<s>>

-----------------------------------------------------------------------------
(* unipParser.ts                                                            *)

normalizeField(value) == trim(value)

DistanceIssue == [msg |-> "Field 2 (distance) is invalid", arg |-> << >>]

\* /^(\d+)\s*\*\s*(\d+)$/ : the digits before and after the only "*"
RelayMatch(t) ==
  LET stars == {i \in 1..Len(t) : t[i] = "*"}
  IN  IF Cardinality(stars) # 1 THEN << >>
      ELSE LET p == CHOOSE i \in stars : TRUE
               left == trimEnd(SubSeq(t, 1, p - 1))
               right == trimStart(SubSeq(t, p + 1, Len(t)))
           IN  IF IsDigits(left) /\ IsDigits(right)
                 THEN <<left, right>>
                 ELSE << >>

parseDistance(value) ==
  LET trimmed == normalizeField(value)
      relayMatch == RelayMatch(trimmed)
  IN  IF relayMatch # << >>
        THEN [relayCount |-> Number(relayMatch[1]),
              distance |-> <<Number(relayMatch[2])>>,
              issues |-> << >>]
      ELSE IF IsDigits(trimmed)
        THEN [relayCount |-> 1, distance |-> <<Number(trimmed)>>,
              issues |-> << >>]
        ELSE [relayCount |-> 1, distance |-> << >>,
              issues |-> <<DistanceIssue>>]

\* strokeMap
strokeMap(code) ==
  CASE code = <<"F", "R">> -> "FREE"
    [] code = <<"B", "R">> -> "BREAST"
    [] code = <<"R", "Y">> -> "BACK"
    [] code = <<"B", "U">> -> "FLY"
    [] code = <<"I", "M">> -> "MEDLEY"
    [] code = <<"L", "M">> -> "MEDLEY"
    [] OTHER -> ""

\* genderMap
genderMap(c) ==
  CASE c = "M" -> "M"
    [] c = "K" -> "F"
    [] c = "X" -> "X"
    [] OTHER -> ""

TxtJunior == <<"J", "u", "n", "i", "o", "r">>

TxtSenior == <<"S", "e", "n", "i", "o", "r">>

TxtMasters == <<"M", "a", "s", "t", "e", "r", "s", " ">>

TxtBornYY == <<"B", "o", "r", "n", " ", "Y", "Y", "=">>

\* the letters A..O of the masters classes
MastersLetters == {UpperChars[i] : i \in 1..15}

\* ageGroupMap[raw] ?? raw
ageGroupMap(raw) ==
  IF raw = <<"J", "R">> THEN TxtJunior
  ELSE IF raw = <<"S", "R">> THEN TxtSenior
  ELSE IF Len(raw) = 2 /\ raw[1] = "M" /\ raw[2] \in MastersLetters
    THEN TxtMasters \o <<raw[2]>>
  ELSE raw

\* relayClassMap[trimmed], << >> when the key is absent
relayClassMap(t) ==
  IF t = <<"J", "U", "N", "I", "O", "R">> THEN TxtJunior
  ELSE IF t = <<"S", "E", "N", "I", "O", "R">> THEN TxtSenior
  ELSE IF /\ Len(t) = 8
          /\ SubSeq(t, 1, 7) = <<"M", "A", "S", "T", "E", "R", "S">>
          /\ t[8] \in MastersLetters
    THEN TxtMasters \o <<t[8]>>
  ELSE << >>

\* (1[0-5]|[1-9])
ParaLevels ==
  {<<Digits[i]>> : i \in 2..10} \cup {<<"1", Digits[i]>> : i \in 1..6}

\* /^(S|SB|SM)(1[0-5]|[1-9])$/ : <<prefix, level>>, << >> when no match
ParaMatch(s) ==
  IF s = << >> \/ s[1] # "S" THEN << >>
  ELSE IF Tail(s) \in ParaLevels THEN <<"S", Tail(s)>>
  ELSE IF Len(s) >= 2 /\ s[2] = "B" /\ SubSeq(s, 3, Len(s)) \in ParaLevels
    THEN <<"SB", SubSeq(s, 3, Len(s))>>
  ELSE IF Len(s) >= 2 /\ s[2] = "M" /\ SubSeq(s, 3, Len(s)) \in ParaLevels
    THEN <<"SM", SubSeq(s, 3, Len(s))>>
  ELSE << >>

\* /^(S|SB|SM)\d+$/
ParaShape(s) ==
  /\ s # << >>
  /\ s[1] = "S"
  /\ \/ IsDigits(Tail(s))
     \/ Len(s) >= 2 /\ s[2] \in {"B", "M"} /\ IsDigits(SubSeq(s, 3, Len(s)))

\* the class prefix "S", "SB" or "SM"; "" stands for null
parseParaClassPrefix(value) ==
  LET m == ParaMatch(toUpperCase(trim(value)))
  IN  IF m = << >> THEN "" ELSE m[1]

Issue(m, a) == [msg |-> m, arg |-> a]

parseGenderAndAgeGroup(value) ==
  LET trimmed == toUpperCase(normalizeField(value))
  IN  IF trimmed = << >>
        THEN [gender |-> "", ageGroupCode |-> << >>,
              issues |-> <<Issue("Field 7 (gender+agegroup) is missing", << >>)>>]
        ELSE
          LET genderCode == trimmed[1]
              gender == genderMap(genderCode)
              ageGroupCodeRaw == Tail(trimmed)
              ageGroupCode ==
                IF Len(ageGroupCodeRaw) = 2 /\ IsDigits(ageGroupCodeRaw)
                  THEN TxtBornYY \o ageGroupCodeRaw
                  ELSE ageGroupMap(ageGroupCodeRaw)
          IN  [gender |-> gender, ageGroupCode |-> ageGroupCode,
               issues |->
                 (IF gender = ""
                    THEN <<Issue("Unknown gender code in field 7", <<genderCode>>)>>
                    ELSE << >>)
                 \o
                 (IF ageGroupCodeRaw = << >>
                    THEN <<Issue("Field 7 agegroup part is missing", << >>)>>
                    ELSE << >>)]

parseBirthYearOrClass(value, isRelay, ageGroupFromField7) ==
  LET trimmed == toUpperCase(normalizeField(value))
  IN  IF trimmed = << >>
        THEN IF isRelay
               THEN [birthYearOrClass |-> ageGroupFromField7, issues |-> << >>]
               ELSE [birthYearOrClass |-> << >>,
                     issues |->
                       <<Issue("Field 8 (birth year/class) is missing", << >>)>>]
      ELSE IF Len(trimmed) = 4 /\ IsDigits(trimmed)
        THEN [birthYearOrClass |-> trimmed, issues |-> << >>]
      ELSE IF relayClassMap(trimmed) # << >>
        THEN [birthYearOrClass |-> relayClassMap(trimmed), issues |-> << >>]
      ELSE IF ParaMatch(trimmed) # << >>
        THEN [birthYearOrClass |-> trimmed, issues |-> << >>]
      ELSE IF ParaShape(trimmed)
        THEN [birthYearOrClass |-> trimmed,
              issues |-> <<Issue("Invalid para class (accepted: S1-S15, SB1-SB15, SM1-SM15)", trimmed)>>]
      ELSE [birthYearOrClass |-> trimmed, issues |-> << >>]

\* "SCM", "LCM"; "" stands for null
parsePoolCourse(value) ==
  LET normalized == toUpperCase(normalizeField(value))
  IN  IF normalized = <<"K">> THEN "SCM"
      ELSE IF normalized = <<"L">> THEN "LCM"
      ELSE ""

\* expectedPrefixByStroke[strokeCode] ?? null; "" stands for null
expectedPrefixByStroke(strokeCode) ==
  CASE strokeCode = <<"F", "R">> -> "S"
    [] strokeCode = <<"B", "U">> -> "S"
    [] strokeCode = <<"R", "Y">> -> "S"
    [] strokeCode = <<"B", "R">> -> "SB"
    [] strokeCode = <<"I", "M">> -> "SM"
    [] OTHER -> ""

\* fields right-padded with empty strings to 15
PadFields(fields) ==
  IF Len(fields) >= 15 THEN fields
  ELSE fields \o [i \in 1..(15 - Len(fields)) |-> << >>]

\* the body of parseUniP's loop: the row of one source line
parseRow(sourceLine, lineIndex) ==
  LET fields == PadFields(split(sourceLine, ","))
      eventNumberRaw == normalizeField(fields[1])
      distanceInfoOfRow == parseDistance(fields[2])
      strokeCode == toUpperCase(normalizeField(fields[3]))
      stroke == strokeMap(strokeCode)
      lastName == normalizeField(fields[4])
      firstName == normalizeField(fields[5])
      genderInfo == parseGenderAndAgeGroup(fields[7])
      isRelay == distanceInfoOfRow.relayCount > 1
      birthInfo == parseBirthYearOrClass(fields[8], isRelay, genderInfo.ageGroupCode)
      field7Raw == toUpperCase(normalizeField(fields[7]))
      eventNumber ==
        IF IsDigits(eventNumberRaw) THEN <<Number(eventNumberRaw)>> ELSE << >>
      mastersIssue ==
        IF /\ isRelay
           /\ Len(field7Raw) = 3
           /\ field7Raw[1] \in {"M", "K", "X"}
           /\ field7Raw[2] = "M"
           /\ field7Raw[3] \notin ({"O"} \cup {UpperChars[i] : i \in 1..7})
          THEN <<Issue("Invalid masters relay class in field 7 (allowed: O, A-G)", field7Raw)>>
          ELSE << >>
      paraClassPrefix == parseParaClassPrefix(birthInfo.birthYearOrClass)
      expectedPrefix == expectedPrefixByStroke(strokeCode)
      paraIssue ==
        IF /\ ~isRelay
           /\ stroke # ""
           /\ paraClassPrefix # ""
           /\ expectedPrefix # ""
           /\ paraClassPrefix # expectedPrefix
          THEN <<Issue("Invalid para class for stroke (expected class)",
                       birthInfo.birthYearOrClass \o <<"/">> \o strokeCode)>>
          ELSE << >>
  IN  [lineNumber |-> lineIndex + 1,
       eventNumber |-> eventNumber,
       relayCount |-> distanceInfoOfRow.relayCount,
       distance |-> distanceInfoOfRow.distance,
       strokeCode |-> strokeCode,
       stroke |-> stroke,
       lastName |-> lastName,
       firstName |-> firstName,
       gender |-> genderInfo.gender,
       ageGroupCode |-> genderInfo.ageGroupCode,
       birthYearOrClass |-> birthInfo.birthYearOrClass,
       qualificationTime |-> normalizeField(fields[9]),
       qualificationDate |-> normalizeField(fields[11]),
       qualificationPlace |-> normalizeField(fields[12]),
       poolCourse |-> parsePoolCourse(fields[13]),
       issues |->
         distanceInfoOfRow.issues \o genderInfo.issues \o birthInfo.issues
         \o (IF eventNumber = << >>
               THEN <<Issue("Field 1 (event number) is missing or invalid", << >>)>>
               ELSE << >>)
         \o (IF stroke = ""
               THEN <<Issue("Field 3 (stroke) value is unknown", strokeCode)>>
               ELSE << >>)
         \o (IF lastName = << >>
               THEN <<Issue("Field 4 (last name/team) is missing", << >>)>>
               ELSE << >>)
         \o (IF ~isRelay /\ firstName = << >>
               THEN <<Issue("Field 5 (first name) is missing for an individual event", << >>)>>
               ELSE << >>)
         \o mastersIssue
         \o paraIssue]

NonBlankLine(line) == Len(trim(line)) > 0

Threw(m) == [state |-> "threw", message |-> m]

\* parseUniP with the rows that have issues left out
parseUniPDroppingBadRows(text) ==
  LET lines == SelectSeq(splitLines(text), NonBlankLine)
      HasNoIssue(row) == row.issues = << >>
  IN  IF Len(lines) = 0 THEN Threw("UNI_p file is empty.")
      ELSE [state |-> "returned",
            clubName |-> trim(lines[1]),
            rows |-> SelectSeq([k \in 1..(Len(lines) - 1) |-> parseRow(lines[k + 1], k)],
                               HasNoIssue)]

parseUniP(text) ==
  LET lines == SelectSeq(splitLines(text), NonBlankLine)
  IN  IF Len(lines) = 0 THEN Threw("UNI_p file is empty.")
      ELSE [state |-> "returned",
            clubName |-> trim(lines[1]),
            rows |-> [k \in 1..(Len(lines) - 1) |-> parseRow(lines[k + 1], k)]]

-----------------------------------------------------------------------------
(* part_001: catalog index, cross-validator and winning event               *)

\* the text of an integer, as a template literal prints it
NumText(n) == IF n < 0 THEN <<"-">> \o String(-n) ELSE String(n)

\* Array.from(new Set(s)): first occurrences, in order
RECURSIVE Dedupe(_)
Dedupe(s) ==
  IF s = << >> THEN << >>
  ELSE LET front == Dedupe(SubSeq(s, 1, Len(s) - 1))
           last == s[Len(s)]
       IN  IF \E i \in 1..Len(front) : front[i] = last
             THEN front
             ELSE Append(front, last)

\* mergeIssues with the validation issues, when there are any, in place of
\* the parse-time issues
mergeIssuesValidationFirst(baseIssues, validationIssues) ==
  IF validationIssues # << >> THEN validationIssues ELSE baseIssues

mergeIssues(baseIssues, validationIssues) == Dedupe(baseIssues \o validationIssues)

forbiddenRegistrationRounds == {"FIN", "SEM", "QUA", "SOP", "SOS", "SOQ"}

\* /^Born YY=(\d{2})$/ expanded around the current year; << >> stands for null
inferFullYearFromAgeGroup(ageGroupCode, year) ==
  IF /\ Len(ageGroupCode) = 10
     /\ SubSeq(ageGroupCode, 1, 8) = TxtBornYY
     /\ IsDigits(SubSeq(ageGroupCode, 9, 10))
    THEN LET yy == Number(SubSeq(ageGroupCode, 9, 10))
             currentYearShort == year % 100
         IN  String(IF yy <= currentYearShort THEN 2000 + yy ELSE 1900 + yy)
    ELSE << >>

inferBirthYear(r, year) ==
  IF Len(r.birthYearOrClass) = 4 /\ IsDigits(r.birthYearOrClass)
    THEN r.birthYearOrClass
    ELSE inferFullYearFromAgeGroup(r.ageGroupCode, year)

\* << >> stands for null, << age >> for a number
getAgeAtEventYear(r, event, year) ==
  IF r.relayCount > 1 THEN << >>
  ELSE LET birthYear == inferBirthYear(r, year)
       IN  IF birthYear = << >> \/ ~(Len(birthYear) = 4 /\ IsDigits(birthYear))
             THEN << >>
           ELSE IF ~(Len(event.sessionDate) >= 4 /\ IsDigits(SubSeq(event.sessionDate, 1, 4)))
             THEN << >>
           ELSE <<Number(SubSeq(event.sessionDate, 1, 4)) - Number(birthYear)>>

isAgeInAnyEventAgeGroup(age, event) ==
  IF Len(event.ageGroups) = 0 THEN TRUE
  ELSE \E i \in 1..Len(event.ageGroups) :
         LET ageGroup == event.ageGroups[i]
         IN  /\ ageGroup.agemin < 0 \/ age >= ageGroup.agemin
             /\ ageGroup.agemax < 0 \/ age <= ageGroup.agemax

\* the loop body of lenexEventsByNumber: append the events to their lists
RECURSIVE addEvents(_, _)
addEvents(map, events) ==
  IF events = << >> THEN map
  ELSE LET event == Head(events)
           existing == IF event.number \in DOMAIN map THEN map[event.number] ELSE << >>
       IN  addEvents([n \in DOMAIN map \cup {event.number} |->
                        IF n = event.number THEN Append(existing, event) ELSE map[n]],
                     Tail(events))

RECURSIVE addSessions(_, _)
addSessions(map, sessions) ==
  IF sessions = << >> THEN map
  ELSE addSessions(addEvents(map, Head(sessions).events), Tail(sessions))

NoLenex == [state |-> "null"]

EmptyMap == [n \in {} |-> << >>]

\* the useMemo lenexEventsByNumber: number -> events, in catalog order
lenexEventsByNumber(summary) ==
  IF summary = NoLenex THEN EmptyMap
  ELSE addSessions(EmptyMap, summary.sessions)

\* eventsByNumber.get(String(n)) ?? []
candidatesOf(eventsByNumber, n) ==
  IF String(n) \in DOMAIN eventsByNumber THEN eventsByNumber[String(n)] ELSE << >>

RoundAllowed(event) == event.round \notin forbiddenRegistrationRounds

\* the filter of compatibleCandidates
IsCompatible(r, event) ==
  /\ event.relayCount = r.relayCount
  /\ r.distance = <<event.distance>>
  /\ r.stroke = "" \/ event.stroke = r.stroke
  /\ r.gender = "" \/ event.gender = r.gender

eventRounds(events) == [i \in 1..Len(events) |-> events[i].round]

HasIssue(issues, m) == \E i \in 1..Len(issues) : issues[i].msg = m

\* mismatchIssues as an else-if chain: the first mismatch only
mismatchIssuesFirstOnly(r, candidates) ==
  IF ~\E i \in 1..Len(candidates) : candidates[i].relayCount = r.relayCount
    THEN <<Issue("Invalid length", << >>)>>
  ELSE IF ~\E i \in 1..Len(candidates) : r.distance = <<candidates[i].distance>>
    THEN <<Issue("Invalid distance", << >>)>>
  ELSE IF r.stroke # "" /\ ~\E i \in 1..Len(candidates) : candidates[i].stroke = r.stroke
    THEN <<Issue("Invalid style", << >>)>>
  ELSE IF r.gender # "" /\ ~\E i \in 1..Len(candidates) : candidates[i].gender = r.gender
    THEN <<Issue("Invalid gender", << >>)>>
  ELSE << >>

\* the four independent mismatch checks over all candidates
mismatchIssues(r, candidates) ==
  (IF ~\E i \in 1..Len(candidates) : candidates[i].relayCount = r.relayCount
     THEN <<Issue("Invalid length", << >>)>> ELSE << >>)
  \o
  (IF ~\E i \in 1..Len(candidates) : r.distance = <<candidates[i].distance>>
     THEN <<Issue("Invalid distance", << >>)>> ELSE << >>)
  \o
  (IF r.stroke # "" /\ ~\E i \in 1..Len(candidates) : candidates[i].stroke = r.stroke
     THEN <<Issue("Invalid style", << >>)>> ELSE << >>)
  \o
  (IF r.gender # "" /\ ~\E i \in 1..Len(candidates) : candidates[i].gender = r.gender
     THEN <<Issue("Invalid gender", << >>)>> ELSE << >>)

\* warnedRoundsOf without the Set: one round per forbidden candidate
warnedRoundsPerCandidate(compatibleCandidates) ==
  LET IsForbidden(round) == round \in forbiddenRegistrationRounds
  IN  SelectSeq(eventRounds(compatibleCandidates), IsForbidden)

\* the rounds to warn about: one per distinct forbidden round
warnedRoundsOf(compatibleCandidates) ==
  LET IsForbidden(round) == round \in forbiddenRegistrationRounds
  IN  SelectSeq(Dedupe(eventRounds(compatibleCandidates)), IsForbidden)

\* round eligibility, for a non-empty list of compatible candidates
roundIssues(compatibleCandidates) ==
  LET allowedCandidateExists ==
        \E i \in 1..Len(compatibleCandidates) : RoundAllowed(compatibleCandidates[i])
      warnedRounds == warnedRoundsOf(compatibleCandidates)
  IN  IF ~allowedCandidateExists
        THEN [i \in 1..Len(warnedRounds) |-> Issue("Registration for", <<warnedRounds[i]>>)]
        ELSE << >>

\* candidates with an allowed round, else all of them
candidatesToCheck(compatibleCandidates) ==
  LET allowed == SelectSeq(compatibleCandidates, RoundAllowed)
  IN  IF Len(allowed) > 0 THEN allowed ELSE compatibleCandidates

IsJuniorName(name) == toLowerCase(trim(name)) = <<"j", "u", "n", "i", "o", "r">>

isJuniorRelay(r) == r.relayCount > 1 /\ IsJuniorName(r.ageGroupCode)

\* junior-relay age-group presence, for a non-empty list of compatible candidates
juniorRelayIssues(r, compatibleCandidates) ==
  LET juniorGroupCandidates == candidatesToCheck(compatibleCandidates)
      hasJuniorAgeGroup ==
        \E i \in 1..Len(juniorGroupCandidates) :
          \E g \in 1..Len(juniorGroupCandidates[i].ageGroups) :
            IsJuniorName(juniorGroupCandidates[i].ageGroups[g].name)
  IN  IF isJuniorRelay(r) /\ ~hasJuniorAgeGroup
        THEN <<Issue("Missing JUNIOR age group in Lenex event for junior relay", << >>)>>
        ELSE << >>

\* the age bound with the age taken at the first compatible candidate,
\* whatever its round
ageIssuesAtFirstCompatible(r, compatibleCandidates, year) ==
  LET ageCheckCandidates == candidatesToCheck(compatibleCandidates)
      swimmerAge == getAgeAtEventYear(r, compatibleCandidates[1], year)
  IN  IF /\ swimmerAge # << >>
         /\ ~\E i \in 1..Len(ageCheckCandidates) :
               isAgeInAnyEventAgeGroup(swimmerAge[1], ageCheckCandidates[i])
        THEN <<Issue("Invalid age group (age not allowed for event)",
                     NumText(swimmerAge[1]) \o <<"/">> \o NumText(r.eventNumber[1]))>>
        ELSE << >>

\* individual age bound, for a non-empty list of compatible candidates
ageIssues(r, compatibleCandidates, year) ==
  LET ageCheckCandidates == candidatesToCheck(compatibleCandidates)
      swimmerAge == getAgeAtEventYear(r, ageCheckCandidates[1], year)
  IN  IF /\ swimmerAge # << >>
         /\ ~\E i \in 1..Len(ageCheckCandidates) :
               isAgeInAnyEventAgeGroup(swimmerAge[1], ageCheckCandidates[i])
        THEN <<Issue("Invalid age group (age not allowed for event)",
                     NumText(swimmerAge[1]) \o <<"/">> \o NumText(r.eventNumber[1]))>>
        ELSE << >>

\* validateRowAgainstLenex without the early return after "Invalid event"
validateWithoutEarlyReturn(r, eventsByNumber, hasLenex, year) ==
  IF ~hasLenex \/ r.eventNumber = << >> THEN << >>
  ELSE
    LET candidates == candidatesOf(eventsByNumber, r.eventNumber[1])
    IN  (IF Len(candidates) = 0 THEN <<Issue("Invalid event", << >>)>> ELSE << >>)
        \o mismatchIssues(r, candidates)

validateRowAgainstLenex(r, eventsByNumber, hasLenex, year) ==
  IF ~hasLenex \/ r.eventNumber = << >> THEN << >>
  ELSE
    LET candidates == candidatesOf(eventsByNumber, r.eventNumber[1])
        Compatible(event) == IsCompatible(r, event)
        compatibleCandidates == SelectSeq(candidates, Compatible)
    IN  IF Len(candidates) = 0 THEN <<Issue("Invalid event", << >>)>>
        ELSE mismatchIssues(r, candidates)
             \o (IF Len(compatibleCandidates) > 0
                   THEN roundIssues(compatibleCandidates)
                        \o juniorRelayIssues(r, compatibleCandidates)
                        \o ageIssues(r, compatibleCandidates, year)
                   ELSE << >>)

NoEvent == [state |-> "null"]

\* Matches without the test of the round
MatchesAnyRound(r, event) ==
  /\ event.relayCount = r.relayCount
  /\ r.distance = <<event.distance>>
  /\ IF r.stroke # "" THEN event.stroke = r.stroke ELSE TRUE
  /\ IF r.gender # "" THEN event.gender = r.gender ELSE TRUE

\* Matches without the test of the stroke
MatchesAnyStroke(r, event) ==
  /\ event.round \notin forbiddenRegistrationRounds
  /\ event.relayCount = r.relayCount
  /\ r.distance = <<event.distance>>
  /\ IF r.gender # "" THEN event.gender = r.gender ELSE TRUE

\* the predicate of candidates.find in findMatchingLenexEvent
Matches(r, event) ==
  /\ event.round \notin forbiddenRegistrationRounds
  /\ event.relayCount = r.relayCount
  /\ r.distance = <<event.distance>>
  /\ IF r.stroke # "" THEN event.stroke = r.stroke ELSE TRUE
  /\ IF r.gender # "" THEN event.gender = r.gender ELSE TRUE

findMatchingLenexEvent(r, eventsByNumber) ==
  IF r.eventNumber = << >> THEN NoEvent
  ELSE LET candidates == candidatesOf(eventsByNumber, r.eventNumber[1])
           hits == {i \in 1..Len(candidates) : Matches(r, candidates[i])}
       IN  IF hits = {} THEN NoEvent
           ELSE candidates[CHOOSE i \in hits : \A j \in hits : i <= j]

-----------------------------------------------------------------------------
(* part_001: the entry builder                                              *)

MinusOne == <<"-", "1">>

\* "" of an atomic code stands for null; a template literal prints it empty
CodeText(code) == IF code = "" THEN << >> ELSE <<code>>

\* << >> stands for null
toLenexEntryTime(value) ==
  IF value = << >> THEN << >>
  ELSE LET trimmed == trim(value)
           segments == split(trimmed, ":")
       IN  IF Len(segments) = 2 THEN <<"0", "0", ":">> \o trimmed
           ELSE IF Len(segments) = 3 THEN trimmed
           ELSE << >>

toLenexDate(value) ==
  IF value = << >> THEN << >>
  ELSE LET compact == trim(value)
       IN  IF Len(compact) = 8 /\ IsDigits(compact)
             THEN SubSeq(compact, 1, 4) \o <<"-">> \o SubSeq(compact, 5, 6)
                  \o <<"-">> \o SubSeq(compact, 7, 8)
             ELSE compact

\* << >> stands for null, otherwise << attribute, level >>
getHandicapFromClass(value) ==
  LET m == ParaMatch(toUpperCase(trim(value)))
  IN  IF m = << >> THEN << >>
      ELSE IF m[1] = "SB" THEN <<"breast", m[2]>>
      ELSE IF m[1] = "SM" THEN <<"medley", m[2]>>
      ELSE <<"free", m[2]>>

mastersRelayAgeRangeByClass(classCode) ==
  CASE classCode = "O" -> [min |-> 80, max |-> 99]
    [] classCode = "A" -> [min |-> 100, max |-> 119]
    [] classCode = "B" -> [min |-> 120, max |-> 159]
    [] classCode = "C" -> [min |-> 160, max |-> 199]
    [] classCode = "D" -> [min |-> 200, max |-> 239]
    [] classCode = "E" -> [min |-> 240, max |-> 279]
    [] classCode = "F" -> [min |-> 280, max |-> 319]
    [] classCode = "G" -> [min |-> 320, max |-> 359]

\* /^Masters\s+([OA-G])$/i : << class code >>, << >> when no match
MastersClassMatch(value) ==
  IF /\ Len(value) >= 9
     /\ toLowerCase(SubSeq(value, 1, 7)) = <<"m", "a", "s", "t", "e", "r", "s">>
     /\ \A i \in 8..(Len(value) - 1) : value[i] \in WhiteSpace
     /\ UpperChar(value[Len(value)]) \in ({"O"} \cup {UpperChars[i] : i \in 1..7})
    THEN <<UpperChar(value[Len(value)])>>
    ELSE << >>

\* getMastersRelayAgeTotalRange with the age-group code checked first
getMastersRangeByAgeGroupFirst(r) ==
  LET first == MastersClassMatch(trim(r.ageGroupCode))
      second == MastersClassMatch(trim(r.birthYearOrClass))
      match == IF first # << >> THEN first ELSE second
  IN  IF match = << >> THEN << >>
      ELSE LET range == mastersRelayAgeRangeByClass(match[1])
           IN  <<[min |-> String(range.min), max |-> String(range.max)]>>

\* << >> stands for null
getMastersRelayAgeTotalRange(r) ==
  LET first == MastersClassMatch(trim(r.birthYearOrClass))
      second == MastersClassMatch(trim(r.ageGroupCode))
      match == IF first # << >> THEN first ELSE second
  IN  IF match = << >> THEN << >>
      ELSE LET range == mastersRelayAgeRangeByClass(match[1])
           IN  <<[min |-> String(range.min), max |-> String(range.max)]>>

\* << >> stands for null
getJuniorRelayAgeMax(r, event) ==
  LET juniorGroups == {g \in 1..Len(event.ageGroups) : IsJuniorName(event.ageGroups[g].name)}
  IN  IF ~isJuniorRelay(r) \/ juniorGroups = {} THEN << >>
      ELSE NumText(event.ageGroups[CHOOSE g \in juniorGroups :
                                     \A h \in juniorGroups : g <= h].agemax)

\* the ENTRY element of a row; setAttributes leaves out null and '' values,
\* which << >> and "" stand for.  The field row records the row the closure
\* was created for.
createEntryElement(r, lenexEvent) ==
  LET entryTime == toLenexEntryTime(r.qualificationTime)
      meetInfoDate == toLenexDate(r.qualificationDate)
      hasQualificationLocationData == meetInfoDate # << >> \/ r.qualificationPlace # << >>
  IN  [eventid |-> lenexEvent.eventId,
       entrytime |-> entryTime,
       entrycourse |-> r.poolCourse,
       meetinfo |->
         IF hasQualificationLocationData
           THEN <<[course |-> r.poolCourse, date |-> meetInfoDate,
                   city |-> r.qualificationPlace]>>
           ELSE << >>,
       row |-> r.lineNumber]

\* the state of the loop of buildLenexEntriesXml before its first row
BuildStart ==
  [athletes |-> << >>,
   relays |-> << >>,
   athleteByKey |-> EmptyMap,
   nextAthleteId |-> 1,
   nextRelayNumber |-> 1,
   skippedDuringBuild |-> 0]

\* the RELAY element of a row with relay count > 1
RelayElementOf(acc, r, lenexEvent) ==
  LET mastersRelayAgeTotal == getMastersRelayAgeTotalRange(r)
      juniorRelayAgeMax == getJuniorRelayAgeMax(r, lenexEvent)
  IN  [number |-> String(acc.nextRelayNumber),
       name |-> r.lastName,
       agemin |-> MinusOne,
       agemax |-> IF juniorRelayAgeMax # << >> THEN juniorRelayAgeMax ELSE MinusOne,
       agetotalmin |->
         IF mastersRelayAgeTotal # << >> THEN mastersRelayAgeTotal[1].min ELSE MinusOne,
       agetotalmax |->
         IF mastersRelayAgeTotal # << >> THEN mastersRelayAgeTotal[1].max ELSE MinusOne,
       gender |-> r.gender,
       entries |-> <<createEntryElement(r, lenexEvent)>>]

\* the relay branch with a relay row joining an earlier RELAY of its name
relayBranchMergingByName(acc, r, lenexEvent) ==
  LET same == {i \in 1..Len(acc.relays) : acc.relays[i].name = r.lastName}
  IN  IF same = {}
        THEN [acc EXCEPT !.relays = Append(@, RelayElementOf(acc, r, lenexEvent)),
                         !.nextRelayNumber = @ + 1]
        ELSE LET i == CHOOSE k \in same : TRUE
             IN  [acc EXCEPT !.relays[i].entries =
                               Append(@, createEntryElement(r, lenexEvent))]

\* the relay branch with the relays numbered by the athletes' counter
relayBranchSharedCounter(acc, r, lenexEvent) ==
  [acc EXCEPT !.relays = Append(@, [RelayElementOf(acc, r, lenexEvent) EXCEPT
                                      !.number = String(acc.nextAthleteId)]),
              !.nextAthleteId = @ + 1]

\* the relay branch of the loop: one new RELAY with one ENTRY
relayBranch(acc, r, lenexEvent) ==
  [acc EXCEPT !.relays = Append(@, RelayElementOf(acc, r, lenexEvent)),
              !.nextRelayNumber = @ + 1]

\* `${row.lastName}|${row.firstName}|${row.gender}|${birthYear ?? ''}`
athleteKeyOf(r, birthYear) ==
  r.lastName \o <<"|">> \o r.firstName \o <<"|">> \o CodeText(r.gender)
  \o <<"|">> \o birthYear

NoHandicap == [free |-> << >>, breast |-> << >>, medley |-> << >>]

\* setHandicap with an attribute that the element has already left as it is
setHandicapKeepingFirst(handicapElement, handicap) ==
  LET element == IF handicapElement = << >> THEN NoHandicap ELSE handicapElement[1]
  IN  <<[element EXCEPT ![handicap[1]] = IF @ = << >> THEN handicap[2] ELSE @]>>

\* handicapElement.setAttribute(handicap.attribute, handicap.level), on a new
\* HANDICAP element when the athlete has none; << >> stands for no element
setHandicap(handicapElement, handicap) ==
  LET element == IF handicapElement = << >> THEN NoHandicap ELSE handicapElement[1]
  IN  <<[element EXCEPT ![handicap[1]] = handicap[2]]>>

\* the athlete branch of the loop: the ATHLETE of the row's key, created at
\* its first row, receives the row's handicap and its ENTRY
athleteBranch(acc, r, lenexEvent, year) ==
  LET birthYear == inferBirthYear(r, year)
      athleteKey == athleteKeyOf(r, birthYear)
      athleteElement ==
        [athleteid |-> String(acc.nextAthleteId),
         birthdate |->
           IF birthYear # << >>
             THEN birthYear \o <<"-", "0", "1", "-", "0", "1">>
             ELSE << >>,
         firstname |-> r.firstName,
         lastname |-> r.lastName,
         gender |-> r.gender,
         handicap |-> << >>,
         entries |-> << >>]
      created ==
        IF athleteKey \in DOMAIN acc.athleteByKey THEN acc
        ELSE [acc EXCEPT
                !.athletes = Append(@, athleteElement),
                !.nextAthleteId = @ + 1,
                !.athleteByKey =
                  [k \in DOMAIN @ \cup {athleteKey} |->
                     IF k = athleteKey THEN Len(acc.athletes) + 1 ELSE @[k]]]
      athleteRecord == created.athleteByKey[athleteKey]
      handicap == getHandicapFromClass(r.birthYearOrClass)
  IN  [created EXCEPT
         !.athletes[athleteRecord].handicap =
           IF handicap # << >> THEN setHandicap(@, handicap) ELSE @,
         !.athletes[athleteRecord].entries =
           Append(@, createEntryElement(r, lenexEvent))]

\* the loop with the rows without a winning event left uncounted
RECURSIVE buildRowsNotCountingSkips(_, _, _, _)
buildRowsNotCountingSkips(acc, rows, eventsByNumber, year) ==
  IF rows = << >> THEN acc
  ELSE LET r == Head(rows)
           lenexEvent == findMatchingLenexEvent(r, eventsByNumber)
           after ==
             IF lenexEvent = NoEvent THEN acc
             ELSE IF r.relayCount > 1 THEN relayBranch(acc, r, lenexEvent)
             ELSE athleteBranch(acc, r, lenexEvent, year)
       IN  buildRowsNotCountingSkips(after, Tail(rows), eventsByNumber, year)

\* the loop of buildLenexEntriesXml over the rows
RECURSIVE buildRows(_, _, _, _)
buildRows(acc, rows, eventsByNumber, year) ==
  IF rows = << >> THEN acc
  ELSE LET r == Head(rows)
           lenexEvent == findMatchingLenexEvent(r, eventsByNumber)
           after ==
             IF lenexEvent = NoEvent
               THEN [acc EXCEPT !.skippedDuringBuild = @ + 1]
             ELSE IF r.relayCount > 1 THEN relayBranch(acc, r, lenexEvent)
             ELSE athleteBranch(acc, r, lenexEvent, year)
       IN  buildRows(after, Tail(rows), eventsByNumber, year)

TxtUnknownClub == <<"U", "n", "k", "n", "o", "w", "n", " ", "C", "l", "u", "b">>

\* A document is given by whether it is well-formed, whether it has
\* LENEX > MEETS > MEET, the root's version attribute, the CONSTRUCTOR
\* elements of the root, the first MEET (field meet) and the further MEET
\* elements (field otherMeets).  A MEET has a name, its SESSION elements and
\* its CLUBS elements, each a list of CLUB elements.

NoConstructor == [name |-> "", version |-> "", registration |-> "", contacts |-> << >>]

\* lines 464-481: the first CONSTRUCTOR, created when there is none, gets its
\* name and version set and its children replaced by one CONTACT
stampConstructor(constructorElements) ==
  LET constructorElement ==
        IF constructorElements = << >> THEN NoConstructor ELSE Head(constructorElements)
      stamped == [constructorElement EXCEPT
                    !.name = "UNI_p-to-Lenex",
                    !.version = "1",
                    !.contacts = <<"haakon@hakostra.net">>]
  IN  <<stamped>> \o (IF constructorElements = << >> THEN << >> ELSE Tail(constructorElements))

\* the merge with the sessions of the meet lost together with the old roster
replaceMeetChildren(meetElement, clubElement) ==
  [meetElement EXCEPT !.sessions = << >>, !.clubs = <<<<clubElement>>>>]

\* lines 483-488 and 598: the first CLUBS of the meet, created when there is
\* none, has its children replaced by the new CLUB
replaceClubs(meetElement, clubElement) ==
  [meetElement EXCEPT
     !.clubs = IF @ = << >> THEN <<<<clubElement>>>> ELSE <<<<clubElement>>>> \o Tail(@)]

buildLenexEntriesXml(baseXml, clubName, rows, eventsByNumber, year) ==
  IF ~baseXml.wellFormed THEN Threw("Could not parse Lenex meet file for export.")
  ELSE IF ~baseXml.hasMeet THEN Threw("Could not find MEET element for export.")
  ELSE LET acc == buildRows(BuildStart, rows, eventsByNumber, year)
           clubElement ==
             [name |-> IF clubName # << >> THEN clubName ELSE TxtUnknownClub,
              athletes |-> acc.athletes,
              relays |-> acc.relays]
       IN  [state |-> "returned",
            xml |-> [baseXml EXCEPT
                       !.version = "3.0",
                       !.constructor = stampConstructor(@),
                       !.meet = replaceClubs(@, clubElement)],
            skippedDuringBuild |-> acc.skippedDuringBuild]

-----------------------------------------------------------------------------
(* part_001: reading the uploaded files                                     *)

\* A Lenex file is given by its declared encoding and its document.  A SESSION
\* element carries its EVENT elements.  An EVENT element carries its
\* attributes, at most one SWIMSTYLE, its AGEGROUP elements and whether it
\* has HEATS.  Attribute values are text; codes (gender, round, stroke) are
\* atomic strings.

\* Number(text) of an attribute: '' is 0, digits with an optional sign
NumberOfAttribute(text) ==
  IF text = << >> THEN 0
  ELSE IF text[1] = "-" THEN 0 - Number(Tail(text))
  ELSE Number(text)

parseEvent(eventElement, sessionDate) ==
  LET swimStyle == eventElement.swimstyle
  IN  [number |-> eventElement.number,
       eventId |-> eventElement.eventid,
       gender |-> eventElement.gender,
       round |-> eventElement.round,
       stroke |-> IF swimStyle # << >> THEN swimStyle[1].stroke ELSE "",
       relayCount |-> IF swimStyle # << >> THEN NumberOfAttribute(swimStyle[1].relaycount) ELSE 0,
       distance |-> IF swimStyle # << >> THEN NumberOfAttribute(swimStyle[1].distance) ELSE 0,
       sessionDate |-> sessionDate,
       ageGroups |->
         [g \in 1..Len(eventElement.agegroups) |->
            [agemin |-> NumberOfAttribute(eventElement.agegroups[g].agemin),
             agemax |-> NumberOfAttribute(eventElement.agegroups[g].agemax),
             name |-> eventElement.agegroups[g].name]]]

parseSession(sessionElement) ==
  [number |-> sessionElement.number,
   date |-> sessionElement.date,
   events |-> [e \in 1..Len(sessionElement.events) |->
                 parseEvent(sessionElement.events[e], sessionElement.date)]]

RECURSIVE SumOfLengths(_)
SumOfLengths(sessions) ==
  IF sessions = << >> THEN 0
  ELSE Len(Head(sessions).events) + SumOfLengths(Tail(sessions))

parseLenexMeet(xmlText) ==
  IF ~xmlText.wellFormed THEN Threw("The uploaded file is not valid XML.")
  ELSE IF ~xmlText.hasMeet THEN Threw("Could not find a MEET element in this Lenex file.")
  ELSE LET sessions == [s \in 1..Len(xmlText.meet.sessions) |->
                          parseSession(xmlText.meet.sessions[s])]
       IN  [name |-> xmlText.meet.name,
            sessions |-> sessions,
            totalEvents |-> SumOfLengths(sessions)]

\* "" stands for no declared encoding, "unsupported" for the thrown error
getSupportedEncoding(declaredEncoding) ==
  CASE declaredEncoding = "" -> "utf-8"
    [] declaredEncoding \in {"utf-8", "utf8"} -> "utf-8"
    [] declaredEncoding \in {"iso-8859-1", "iso8859-1", "latin1", "latin-1"} -> "iso-8859-1"
    [] OTHER -> "unsupported"

\* the files of the model are ASCII: both decoders give the same content
decodeXmlFileText(file) ==
  LET encoding == getSupportedEncoding(file.declaredEncoding)
  IN  IF encoding = "unsupported"
        THEN Threw("Unsupported XML encoding. Supported encodings are UTF-8 and ISO-8859-1.")
        ELSE [state |-> "returned",
              content |-> [f \in DOMAIN file \ {"declaredEncoding"} |-> file[f]],
              encoding |-> encoding]

\* a MEET without the HEATS of its EVENT elements
withoutHeats(meetElement) ==
  [meetElement EXCEPT !.sessions =
     [s \in 1..Len(@) |->
        [@[s] EXCEPT !.events =
           [e \in 1..Len(@) |-> [@[e] EXCEPT !.heats = FALSE]]]]]

removeEventHeatsFromLenexXml(xml) ==
  IF ~xml.wellFormed THEN Threw("Could not parse Lenex file.")
  ELSE [xml EXCEPT !.meet = withoutHeats(@),
                   !.otherMeets = [m \in 1..Len(@) |-> withoutHeats(@[m])]]

IsThrown(result) == "state" \in DOMAIN result /\ result.state = "threw"

\* the try block of handleFile: the values it sets, or the thrown error
readLenexFile(file) ==
  LET decoded == decodeXmlFileText(file)
  IN  IF IsThrown(decoded) THEN decoded
      ELSE LET sanitizedContent == removeEventHeatsFromLenexXml(decoded.content)
           IN  IF IsThrown(sanitizedContent) THEN sanitizedContent
               ELSE LET parsed == parseLenexMeet(sanitizedContent)
                    IN  IF IsThrown(parsed) THEN parsed
                        ELSE [state |-> "returned",
                              lenexSourceXml |-> sanitizedContent,
                              detectedEncoding |-> decoded.encoding,
                              lenexSummary |-> parsed]

\* A UNI_p file is a sequence of bytes: an ASCII byte is written as its
\* character, a byte above 0x7F as its two hexadecimal digits.
HighBytes == {"C3", "C5", "85"}

\* TextDecoder('iso-8859-1') decodes as windows-1252, byte by byte
Windows1252(byte) ==
  CASE byte = "C3" -> "U+00C3"
    [] byte = "C5" -> "U+00C5"
    [] byte = "85" -> "U+2026"
    [] OTHER -> byte

\* TextDecoder('utf-8'): a lead byte with its continuation byte is one
\* character, any other byte above 0x7F is replaced by U+FFFD
RECURSIVE Utf8(_)
Utf8(bytes) ==
  IF bytes = << >> THEN << >>
  ELSE IF Head(bytes) \notin HighBytes THEN <<Head(bytes)>> \o Utf8(Tail(bytes))
  ELSE IF Len(bytes) >= 2 /\ bytes[1] = "C3" /\ bytes[2] = "85"
    THEN <<"U+00C5">> \o Utf8(SubSeq(bytes, 3, Len(bytes)))
  ELSE <<"U+FFFD">> \o Utf8(Tail(bytes))

decodePlainTextFile(file, encoding) ==
  IF encoding = "utf-8" THEN Utf8(file)
  ELSE [i \in 1..Len(file) |-> Windows1252(file[i])]

parseUniPFile(file, encoding) == parseUniP(decodePlainTextFile(file, encoding))

-----------------------------------------------------------------------------
(* part_001: the state of App and what it derives from it                   *)

\* `${row.lineNumber}-${row.eventNumber ?? 'x'}-${row.lastName}-${row.firstName}`
getRowKey(r) ==
  NumText(r.lineNumber) \o <<"-">>
  \o (IF r.eventNumber = << >> THEN <<"x">> ELSE NumText(r.eventNumber[1]))
  \o <<"-">> \o r.lastName \o <<"-">> \o r.firstName

\* the useMemo mergedIssuesByRowKey: a later row replaces the value of an
\* earlier row with its key
mergedIssuesByRowKey(rows, eventsByNumber, hasLenex, year) ==
  [key \in {getRowKey(rows[i]) : i \in 1..Len(rows)} |->
     LET setters == {i \in 1..Len(rows) : getRowKey(rows[i]) = key}
         last == CHOOSE i \in setters : \A j \in setters : j <= i
     IN  mergeIssues(rows[last].issues,
                     validateRowAgainstLenex(rows[last], eventsByNumber, hasLenex, year))]

\* exportableRows with the parse-time issues of a row in place of its merged issues
exportableRowsByParseIssues(rows, mergedIssues) ==
  LET HasNoIssue(r) == r.issues = << >>
  IN  SelectSeq(rows, HasNoIssue)

\* the useMemo exportableRows
exportableRows(rows, mergedIssues) ==
  LET HasNoIssue(r) ==
        (IF getRowKey(r) \in DOMAIN mergedIssues THEN mergedIssues[getRowKey(r)] ELSE << >>)
        = << >>
  IN  SelectSeq(rows, HasNoIssue)

\* the values of the state of App at its first render; << >> stands for
\* null, << v >> for a file or document v.  pendingLenex and pendingUniP hold
\* the started reads of handleFile, handleUniPFile and the effect's reload
\* that have not resumed; download is the file the last step handed to the
\* browser, NotRun when it handed none.
AppIdle ==
  /\ lenexSourceXml = << >>
  /\ lenexSummary = NoLenex
  /\ errorMessage = << >>
  /\ uniPEncoding = "iso-8859-1"
  /\ uniPClubName = << >>
  /\ uniPRows = << >>
  /\ uniPErrorMessage = << >>
  /\ conversionWarning = << >>
  /\ conversionError = << >>
  /\ uniPSourceFile = << >>
  /\ pendingLenex = {}
  /\ pendingUniP = {}
  /\ download = NotRun

lenexVars == <<lenexSourceXml, lenexSummary, errorMessage>>

uniPVars == <<uniPClubName, uniPRows, uniPErrorMessage, uniPSourceFile>>

appVars ==
  <<lenexVars, uniPVars, uniPEncoding, conversionWarning, conversionError,
    pendingLenex, pendingUniP, download>>

-----------------------------------------------------------------------------
(* Bounded inputs                                                           *)

MaxFieldLen == 4

FieldChars == {"0", "4", "5", "*", " ", "a"}

RECURSIVE StringsUpTo(_, _)
StringsUpTo(chars, n) ==
  IF n = 0 THEN {<< >>}
  ELSE LET shorter == StringsUpTo(chars, n - 1)
       IN  shorter \cup {Append(s, c) : s \in shorter, c \in chars}

FieldInputs == StringsUpTo(FieldChars, MaxFieldLen)

-----------------------------------------------------------------------------
(* Specification of parseDistance as a function of its input                *)

ParseIdle == content = << >> /\ parseResult = NotRun

YearNow == 2024

MatchIdle ==
  /\ currentYear = YearNow
  /\ checkedRow = NotRun
  /\ catalog = NoLenex
  /\ matchResult = NotRun

matchVars == <<currentYear, checkedRow, catalog, matchResult>>

InitDistance ==
  /\ field \in FieldInputs
  /\ distanceInfo = NotRun
  /\ ParseIdle
  /\ MatchIdle
  /\ AppIdle

ApplyParseDistance ==
  /\ distanceInfo = NotRun
  /\ distanceInfo' = parseDistance(field)
  /\ UNCHANGED <<field, content, parseResult, matchVars, appVars>>

NextDistance == ApplyParseDistance

SpecDistance == InitDistance /\ [][NextDistance]_vars

\* /^\d+\s*\*\s*\d+$/ read off the text: digits, blanks, one "*", blanks, digits
RelayForm(t, i, j, k) ==
  /\ 1 <= i /\ i < j /\ j <= k /\ k < Len(t)
  /\ IsDigits(SubSeq(t, 1, i))
  /\ \A x \in (i + 1)..(j - 1) : t[x] \in WhiteSpace
  /\ t[j] = "*"
  /\ \A x \in (j + 1)..k : t[x] \in WhiteSpace
  /\ IsDigits(SubSeq(t, k + 1, Len(t)))

\* C10: distance decoding. A plain integer n gives relay count 1 and
\* distance n without issue; R*D with R and D positive gives relay count R
\* and distance D without issue; every other value (a relay count or a
\* distance of zero included) gives relay count 1, no distance and exactly
\* one issue; so the relay count is >= 1 and the distance absent or positive.
C10_DistanceDecoding ==
  distanceInfo # NotRun =>
    LET t == trim(field)
        positiveRelay ==
          \E i, j, k \in 1..Len(t) :
            /\ RelayForm(t, i, j, k)
            /\ Number(SubSeq(t, 1, i)) > 0
            /\ Number(SubSeq(t, k + 1, Len(t))) > 0
    IN  /\ IsDigits(t) =>
             distanceInfo = [relayCount |-> 1, distance |-> <<Number(t)>>,
                             issues |-> << >>]
        /\ positiveRelay =>
             \E i, j, k \in 1..Len(t) :
               /\ RelayForm(t, i, j, k)
               /\ distanceInfo =
                    [relayCount |-> Number(SubSeq(t, 1, i)),
                     distance |-> <<Number(SubSeq(t, k + 1, Len(t)))>>,
                     issues |-> << >>]
        /\ (~IsDigits(t) /\ ~positiveRelay) =>
             /\ distanceInfo.relayCount = 1
             /\ distanceInfo.distance = << >>
             /\ Len(distanceInfo.issues) = 1
        /\ distanceInfo.relayCount >= 1
        /\ distanceInfo.distance = << >> \/ distanceInfo.distance[1] > 0

-----------------------------------------------------------------------------
(* Specification of parseUniP as a function of the file's text              *)

MaxContentLen == 5

ContentChars == {"A", "5", ",", " ", "\n", "\r"}

ContentInputs == StringsUpTo(ContentChars, MaxContentLen)

DistanceIdle == field = << >> /\ distanceInfo = NotRun

InitParse ==
  /\ content \in ContentInputs
  /\ parseResult = NotRun
  /\ DistanceIdle
  /\ MatchIdle
  /\ AppIdle

ApplyParseUniP ==
  /\ parseResult = NotRun
  /\ parseResult' = parseUniP(content)
  /\ UNCHANGED <<content, field, distanceInfo, matchVars, appVars>>

NextParse == ApplyParseUniP

SpecParse == InitParse /\ [][NextParse]_vars

\* the first index of the line that holds index i
LineStartOf(text, i) ==
  IF \E j \in 1..(i - 1) : text[j] = "\n"
    THEN 1 + CHOOSE j \in 1..(i - 1) :
               text[j] = "\n" /\ \A x \in (j + 1)..(i - 1) : text[x] # "\n"
    ELSE 1

\* the indexes of the first non-blank character of each non-blank line
LineHeads(text) ==
  {i \in 1..Len(text) :
     /\ text[i] \notin WhiteSpace
     /\ \A j \in LineStartOf(text, i)..(i - 1) : text[j] \in WhiteSpace}

\* the n-th smallest element of a set of numbers
NthOf(S, n) == CHOOSE i \in S : Cardinality({j \in S : j < i}) = n - 1

\* the trimmed text of the line whose first non-blank character is at i
TrimmedLineAt(text, i) ==
  LET last == CHOOSE e \in i..Len(text) :
                /\ text[e] \notin WhiteSpace
                /\ \A x \in i..e : text[x] # "\n"
                /\ \A x \in (e + 1)..Len(text) :
                     (\A y \in (e + 1)..x : text[y] # "\n") => text[x] \in WhiteSpace
  IN  SubSeq(text, i, last)

\* C9: parseUniP throws only for a text without a non-blank line; otherwise
\* it returns the first non-blank line, trimmed, as the club name and exactly
\* one row per further non-blank line, in order, whatever the line holds.
C9_ParseNeverDropsRows ==
  parseResult # NotRun =>
    LET heads == LineHeads(content)
    IN  /\ parseResult.state = "threw" <=> \A i \in 1..Len(content) : content[i] \in WhiteSpace
        /\ parseResult.state = "threw" <=> heads = {}
        /\ parseResult.state # "threw" =>
             /\ parseResult.state = "returned"
             /\ parseResult.clubName = TrimmedLineAt(content, NthOf(heads, 1))
             /\ Len(parseResult.rows) = Cardinality(heads) - 1
             /\ \A k \in 1..Len(parseResult.rows) :
                  /\ parseResult.rows[k].lineNumber = k + 1
                  /\ parseResult.rows[k] =
                       parseRow(TrimmedLineAt(content, NthOf(heads, k + 1)), k)

\* a club line, a row whose event number is 5 and a row without event number
C9_Witness ==
  /\ parseResult # NotRun
  /\ parseResult.state = "returned"
  /\ Len(parseResult.rows) = 2
  /\ parseResult.rows[1].eventNumber = <<5>>
  /\ parseResult.rows[2].eventNumber = << >>
  /\ parseResult.rows[2].issues # << >>

-----------------------------------------------------------------------------
(* Bounded meets and registration lines for the cross-validation            *)

Comma == <<",">>

\* a UNI_p line of eight fields (field 6 is unused)
LineOf(ev, dist, st, last, first, f7, f8) ==
  ev \o Comma \o dist \o Comma \o st \o Comma \o last \o Comma \o first
  \o Comma \o Comma \o f7 \o Comma \o f8

\* individual rows for event 5 over 100 and 50 metres, with field 3 and
\* field 7 resolved to FREE/M or BACK/F, or the stroke or the gender unknown;
\* one relay row for event 5 and one individual row for event 6
MatchLines ==
  {LineOf(<<"5">>, dist, sg[1], <<"A">>, <<"C">>, sg[2], <<"2", "0", "0", "5">>) :
     dist \in {<<"1", "0", "0">>, <<"5", "0">>},
     sg \in {<<<<"F", "R">>, <<"M", "0", "5">>>>,
             <<<<"R", "Y">>, <<"K", "0", "5">>>>,
             <<<<"X", "X">>, <<"M", "0", "5">>>>,
             <<<<"F", "R">>, <<"Q", "0", "5">>>>}}
  \cup
  {LineOf(<<"5">>, <<"4", "*", "5", "0">>, <<"F", "R">>, <<"A">>, << >>,
          <<"M", "0", "5">>, << >>),
   LineOf(<<"6">>, <<"1", "0", "0">>, <<"F", "R">>, <<"A">>, <<"C">>,
          <<"M", "0", "5">>, <<"2", "0", "0", "5">>)}

TxtDate == <<"2", "0", "2", "4", "-", "0", "6", "-", "0", "1">>

\* the attributes of an EVENT and its SWIMSTYLE that the meets vary
EventTemplates ==
  [number : {<<"5">>},
   round : {"PRE", "FIN", "SEM"},
   shape : {<<1, 100>>, <<1, 50>>, <<4, 50>>},
   style : {<<"FREE", "M">>, <<"BACK", "M">>, <<"FREE", "F">>}]
  \cup
  {[number |-> <<"6">>, round |-> "PRE", shape |-> <<1, 100>>, style |-> <<"FREE", "M">>]}

MaxCatalogEvents == 2

\* the LenexEvent that parseEvent reads from an EVENT element
EventOf(t, id, sessionDate, ageGroups) ==
  [number |-> t.number,
   eventId |-> String(id),
   gender |-> t.style[2],
   round |-> t.round,
   stroke |-> t.style[1],
   relayCount |-> t.shape[1],
   distance |-> t.shape[2],
   sessionDate |-> sessionDate,
   ageGroups |-> ageGroups]

\* a meet of two sessions: the first k events in session 1, the rest in session 2
SummaryOf(l, k) ==
  LET events == [i \in 1..Len(l) |-> EventOf(l[i], i, TxtDate, << >>)]
  IN  [name |-> <<"M">>,
       sessions |->
         <<[number |-> <<"1">>, date |-> TxtDate, events |-> SubSeq(events, 1, k)],
           [number |-> <<"2">>, date |-> TxtDate, events |-> SubSeq(events, k + 1, Len(l))]>>,
       totalEvents |-> Len(l)]

\* where an event list is split into two sessions: after its first event, or
\* not at all
SplitPoints(l) == {Len(l)} \cup ({1} \cap (1..Len(l)))

-----------------------------------------------------------------------------
(* Specification of the cross-validation of one row against one meet        *)

InitMatch ==
  /\ currentYear = YearNow
  /\ \E line \in MatchLines : checkedRow = parseRow(line, 1)
  /\ \E n \in 0..MaxCatalogEvents :
       \E l \in [1..n -> EventTemplates] :
         \E k \in SplitPoints(l) : catalog = SummaryOf(l, k)
  /\ matchResult = NotRun
  /\ DistanceIdle
  /\ ParseIdle
  /\ AppIdle

ValidateAndMatch ==
  /\ matchResult = NotRun
  /\ matchResult' =
       [issues |-> validateRowAgainstLenex(checkedRow, lenexEventsByNumber(catalog),
                                           catalog # NoLenex, currentYear),
        event |-> findMatchingLenexEvent(checkedRow, lenexEventsByNumber(catalog))]
  /\ UNCHANGED <<currentYear, checkedRow, catalog, field, distanceInfo, content, parseResult,
               appVars>>

NextMatch == ValidateAndMatch

SpecMatch == InitMatch /\ [][NextMatch]_vars

\* the events of a meet in catalog order: sessions in document order, then
\* the events of each session in document order
RECURSIVE FlatEvents(_)
FlatEvents(sessions) ==
  IF sessions = << >> THEN << >>
  ELSE Head(sessions).events \o FlatEvents(Tail(sessions))

CatalogEvents == FlatEvents(catalog.sessions)

\* the positions, in catalog order, of the events with the row's event number
CandidatePositionsOf(summary, r) ==
  LET flat == FlatEvents(summary.sessions)
  IN  {i \in 1..Len(flat) :
         r.eventNumber # << >> /\ flat[i].number = String(r.eventNumber[1])}

\* ... of those with the row's relay count and distance, and its stroke and
\* gender when the row has them
CompatiblePositionsOf(summary, r) ==
  LET flat == FlatEvents(summary.sessions)
  IN  {i \in CandidatePositionsOf(summary, r) :
         /\ flat[i].relayCount = r.relayCount
         /\ r.distance = <<flat[i].distance>>
         /\ r.stroke # "" => flat[i].stroke = r.stroke
         /\ r.gender # "" => flat[i].gender = r.gender}

ClosedRounds == {"FIN", "SEM", "QUA", "SOP", "SOS", "SOQ"}

\* ... of those in a round open to registration
OpenPositionsOf(summary, r) ==
  LET flat == FlatEvents(summary.sessions)
  IN  {i \in CompatiblePositionsOf(summary, r) : flat[i].round \notin ClosedRounds}

CandidatePositions == CandidatePositionsOf(catalog, checkedRow)

CompatiblePositions == CompatiblePositionsOf(catalog, checkedRow)

OpenPositions == OpenPositionsOf(catalog, checkedRow)

CountIssues(issues, issue) == Cardinality({i \in 1..Len(issues) : issues[i] = issue})

\* C1: every registration that cannot be matched is flagged: a row with an
\* event number for which findMatchingLenexEvent finds no winning event gets
\* at least one issue from validateRowAgainstLenex.
C1_UnmatchedRowIsFlagged ==
  (matchResult # NotRun /\ checkedRow.eventNumber # << >> /\ matchResult.event = NoEvent)
    => matchResult.issues # << >>

\* C3: the winning event is the first event in catalog order, among those
\* with the row's event number, whose round is open and whose relay count,
\* distance and (when the row has them) stroke and gender are the row's; there
\* is none when no such event exists, and a winning event never has a closed
\* round.
C3_WinnerIsFirstOpenMatch ==
  matchResult # NotRun =>
    /\ OpenPositions = {} => matchResult.event = NoEvent
    /\ OpenPositions # {} =>
         matchResult.event =
           CatalogEvents[CHOOSE i \in OpenPositions : \A j \in OpenPositions : i <= j]
    /\ matchResult.event # NoEvent => matchResult.event.round \notin ClosedRounds

\* the winner is the second event of the meet, in its second session, the
\* first event being compatible but closed
C3_Witness ==
  /\ matchResult # NotRun
  /\ matchResult.event # NoEvent
  /\ Len(catalog.sessions[1].events) = 1
  /\ Len(catalog.sessions[2].events) = 1
  /\ matchResult.event = catalog.sessions[2].events[1]
  /\ 1 \in CompatiblePositions
  /\ CatalogEvents[1].round = "FIN"

\* C4: when the compatible candidates are all in closed rounds, validation
\* adds exactly one "Registration for <ROUND>" per distinct round among them
\* and the row has no winning event; when a compatible candidate has an open
\* round, no "Registration for" issue is added.
C4_RoundEligibility ==
  matchResult # NotRun =>
    /\ (CompatiblePositions # {} /\ OpenPositions = {}) =>
         /\ \A i \in CompatiblePositions :
              CountIssues(matchResult.issues,
                          Issue("Registration for", <<CatalogEvents[i].round>>)) = 1
         /\ Cardinality({k \in 1..Len(matchResult.issues) :
                           matchResult.issues[k].msg = "Registration for"})
              = Cardinality({CatalogEvents[i].round : i \in CompatiblePositions})
         /\ matchResult.event = NoEvent
    /\ OpenPositions # {} => ~HasIssue(matchResult.issues, "Registration for")

\* two compatible candidates in the same closed round: one issue
C4_Witness ==
  /\ matchResult # NotRun
  /\ Cardinality(CompatiblePositions) = 2
  /\ \A i \in CompatiblePositions : CatalogEvents[i].round = "SEM"
  /\ matchResult.issues = <<Issue("Registration for", <<"SEM">>)>>

\* C5: for a row whose event number has a candidate, each of the four
\* mismatches is reported exactly when no candidate has the row's value,
\* independently of the other three.
C5_IndependentMismatches ==
  (matchResult # NotRun /\ CandidatePositions # {}) =>
    /\ HasIssue(matchResult.issues, "Invalid length")
         <=> ~\E i \in CandidatePositions :
                CatalogEvents[i].relayCount = checkedRow.relayCount
    /\ HasIssue(matchResult.issues, "Invalid distance")
         <=> ~\E i \in CandidatePositions :
                checkedRow.distance = <<CatalogEvents[i].distance>>
    /\ HasIssue(matchResult.issues, "Invalid style")
         <=> /\ checkedRow.stroke # ""
             /\ ~\E i \in CandidatePositions : CatalogEvents[i].stroke = checkedRow.stroke
    /\ HasIssue(matchResult.issues, "Invalid gender")
         <=> /\ checkedRow.gender # ""
             /\ ~\E i \in CandidatePositions : CatalogEvents[i].gender = checkedRow.gender

\* all four reported for one row
C5_Witness ==
  /\ matchResult # NotRun
  /\ HasIssue(matchResult.issues, "Invalid length")
  /\ HasIssue(matchResult.issues, "Invalid distance")
  /\ HasIssue(matchResult.issues, "Invalid style")
  /\ HasIssue(matchResult.issues, "Invalid gender")

\* C6: a row with an event number that no event of the meet has gets exactly
\* the one issue "Invalid event" and nothing else; "Invalid event" is never
\* reported when a candidate exists.
C6_InvalidEventIsTerminal ==
  (matchResult # NotRun /\ checkedRow.eventNumber # << >>) =>
    /\ CandidatePositions = {} => matchResult.issues = <<Issue("Invalid event", << >>)>>
    /\ CandidatePositions # {} => ~HasIssue(matchResult.issues, "Invalid event")

\* the meet has events, none with the row's number, and none of them has the
\* row's relay count
C6_Witness ==
  /\ matchResult # NotRun
  /\ checkedRow.eventNumber = <<6>>
  /\ Len(CatalogEvents) = 2
  /\ CandidatePositions = {}
  /\ \A i \in 1..2 : CatalogEvents[i].relayCount # checkedRow.relayCount
  /\ matchResult.issues = <<Issue("Invalid event", << >>)>>

\* the position of an issue in a list without duplicates
PositionIn(issues, issue) == CHOOSE i \in 1..Len(issues) : issues[i] = issue

\* the effective issues of the validated row
EffectiveIssues == mergeIssues(checkedRow.issues, matchResult.issues)

\* the effective issues hold every parse-time issue and every validation
\* issue once and nothing else, the parse-time issues in their order and
\* ahead of the issues that only the validation reports
ParseIssuesKept(base, validation) ==
  LET merged == mergeIssues(base, validation)
      In(issues) == {issues[i] : i \in 1..Len(issues)}
  IN  /\ In(merged) = In(base) \cup In(validation)
      /\ \A i, j \in 1..Len(merged) : merged[i] = merged[j] => i = j
      /\ \A i, j \in 1..Len(base) :
           (i < j /\ base[i] # base[j] /\ \A k \in 1..(j - 1) : base[k] # base[j])
             => PositionIn(merged, base[i]) < PositionIn(merged, base[j])
      /\ \A b \in In(base) : \A v \in In(validation) \ In(base) :
           PositionIn(merged, b) < PositionIn(merged, v)

\* C13: validating a row and merging the issues leaves the row and its
\* parse-time issue list as they were, and the effective issues keep every
\* parse-time issue, in order, without duplicates and ahead of the validation
\* issues, whatever the meet.
C13_ValidationIsNonDestructive ==
  [][matchResult' # NotRun =>
       /\ checkedRow' = checkedRow
       /\ ParseIssuesKept(checkedRow.issues, matchResult'.issues)]_vars

\* a row with a parse-time issue was validated and got a validation issue
C13_Witness ==
  /\ matchResult # NotRun
  /\ checkedRow.issues # << >>
  /\ matchResult.issues # << >>
  /\ Len(EffectiveIssues) = Len(checkedRow.issues) + Len(matchResult.issues)

-----------------------------------------------------------------------------
(* Bounded files for the export                                             *)

Date2024 == <<"2", "0", "2", "4", "-", "0", "6", "-", "0", "1">>

EventElement(number, eventid, gender, round, stroke, relaycount, distance, agegroups) ==
  [number |-> number, eventid |-> eventid, gender |-> gender, round |-> round,
   swimstyle |-> <<[stroke |-> stroke, relaycount |-> relaycount, distance |-> distance]>>,
   agegroups |-> agegroups, heats |-> TRUE]

Txt50 == <<"5", "0">>

Txt100 == <<"1", "0", "0">>

\* a file with one meet, without CONSTRUCTOR and without CLUBS
MeetFile(sessionEvents) ==
  [declaredEncoding |-> "utf-8", wellFormed |-> TRUE, hasMeet |-> TRUE,
   version |-> "3.0", constructor |-> << >>,
   meet |-> [name |-> <<"M">>,
             sessions |-> [s \in 1..Len(sessionEvents) |->
                             [number |-> String(s), date |-> Date2024,
                              events |-> sessionEvents[s]]],
             clubs |-> << >>],
   otherMeets |-> << >>]

\* events 5 and 6 for individuals and event 7 for relays, all open
OpenMeet ==
  MeetFile(<<<<EventElement(<<"5">>, <<"1">>, "M", "PRE", "FREE", <<"1">>, Txt100, << >>),
               EventElement(<<"6">>, <<"2">>, "M", "PRE", "FREE", <<"1">>, Txt50, << >>)>>,
             <<EventElement(<<"7">>, <<"3">>, "M", "PRE", "FREE", <<"4">>, Txt50, << >>)>>>>)

\* event 5 held twice, once for women and once as backstroke; event 7 with
\* its final listed before its prelims
SplitMeet ==
  MeetFile(<<<<EventElement(<<"5">>, <<"1">>, "F", "PRE", "FREE", <<"1">>, Txt100, << >>),
               EventElement(<<"5">>, <<"2">>, "M", "PRE", "BACK", <<"1">>, Txt100, << >>),
               EventElement(<<"6">>, <<"3">>, "M", "TIM", "FREE", <<"1">>, Txt50, << >>)>>,
             <<EventElement(<<"7">>, <<"4">>, "M", "FIN", "FREE", <<"4">>, Txt50, << >>),
               EventElement(<<"7">>, <<"5">>, "M", "PRE", "FREE", <<"4">>, Txt50, << >>)>>>>)

AgeGroupElement(agemin, agemax, name) == [agemin |-> agemin, agemax |-> agemax, name |-> name]

\* event 5 for ages 30 to 40, event 7 with a JUNIOR age group
AgeMeet ==
  MeetFile(<<<<EventElement(<<"5">>, <<"1">>, "M", "PRE", "FREE", <<"1">>, Txt100,
                            <<AgeGroupElement(<<"3", "0">>, <<"4", "0">>, <<"A">>)>>),
               EventElement(<<"6">>, <<"2">>, "M", "PRE", "FREE", <<"1">>, Txt50,
                            <<AgeGroupElement(MinusOne, MinusOne, <<"O">>)>>),
               EventElement(<<"7">>, <<"3">>, "M", "PRE", "FREE", <<"4">>, Txt50,
                            <<AgeGroupElement(MinusOne, <<"1", "8">>,
                                              <<"J", "U", "N", "I", "O", "R">>)>>)>>>>)

BrokenFile ==
  [declaredEncoding |-> "", wellFormed |-> FALSE, hasMeet |-> FALSE,
   version |-> "", constructor |-> << >>,
   meet |-> [name |-> << >>, sessions |-> << >>, clubs |-> << >>],
   otherMeets |-> << >>]

\* a CLUB with one athlete entered for the event with id 1
EnteredClub ==
  [name |-> <<"O">>,
   athletes |-> <<[athleteid |-> <<"1">>, birthdate |-> << >>, firstname |-> <<"F">>,
                   lastname |-> <<"L">>, gender |-> "M", handicap |-> << >>,
                   entries |-> <<[eventid |-> <<"1">>, entrytime |-> << >>,
                                  entrycourse |-> "", meetinfo |-> << >>, row |-> 0]>>]>>,
   relays |-> << >>]

\* a file written by another program at version 2.0, with two meets that
\* both have entries already
EnteredMeets ==
  [OpenMeet EXCEPT
     !.version = "2.0",
     !.constructor = <<[name |-> "Other", version |-> "11", registration |-> "R",
                        contacts |-> <<"a", "b">>]>>,
     !.meet.clubs = <<<<EnteredClub>>>>,
     !.otherMeets = <<[name |-> <<"N">>,
                       sessions |-> <<[number |-> <<"1">>, date |-> Date2024,
                                       events |-> <<EventElement(<<"5">>, <<"9">>, "F", "PRE",
                                                                 "BACK", <<"1">>, Txt100,
                                                                 << >>)>>]>>,
                       clubs |-> <<<<EnteredClub>>>>]>>]

BuildMeets == {OpenMeet, SplitMeet, AgeMeet, EnteredMeets}

Txt2005 == <<"2", "0", "0", "5">>

TxtM05 == <<"M", "0", "5">>

TxtFR == <<"F", "R">>

TxtRelay == <<"4", "*", "5", "0">>

\* fields 9 to 13: time, an unused field, date, place and pool course
TxtQualification ==
  <<",", "1", ":", "0", "2", ".", "5", ",", ",", "2", "0", "2", "4", "0", "1", "0", "1",
    ",", "O", ",", "K">>

\* two swimmers whose names differ in where the "|" stands; one swimmer in
\* events 5 and 6, with a birth year or a para class in field 8; a swimmer of
\* the same name whose year of birth is given by the two digits 25 only;
\* relay teams; a row for a missing event and one with an unknown stroke
BuildLines ==
  {LineOf(<<"5">>, Txt100, TxtFR, <<"A", "|", "B">>, <<"C">>, TxtM05, Txt2005),
   LineOf(<<"5">>, Txt100, TxtFR, <<"A">>, <<"B", "|", "C">>, TxtM05, Txt2005),
   LineOf(<<"5">>, Txt100, TxtFR, <<"A">>, <<"C">>, TxtM05, Txt2005) \o TxtQualification,
   LineOf(<<"6">>, Txt50, TxtFR, <<"A">>, <<"C">>, TxtM05, Txt2005),
   LineOf(<<"6">>, Txt50, TxtFR, <<"A">>, <<"C">>, TxtM05, <<"S", "9">>),
   LineOf(<<"6">>, Txt50, TxtFR, <<"A">>, <<"C">>, <<"M", "2", "5">>, <<"S", "9">>),
   LineOf(<<"7">>, TxtRelay, TxtFR, <<"T">>, << >>, TxtM05, << >>),
   LineOf(<<"7">>, TxtRelay, TxtFR, <<"T">>, << >>, <<"M", "J", "R">>, << >>),
   LineOf(<<"9">>, Txt100, TxtFR, <<"A">>, <<"C">>, TxtM05, Txt2005),
   LineOf(<<"5">>, Txt100, <<"X", "X">>, <<"A">>, <<"C">>, TxtM05, Txt2005)}

MaxBuildRows == 2

\* the bytes of a file with a club line and the given lines
RECURSIVE FileOf(_, _)
FileOf(clubLine, lines) ==
  IF lines = << >> THEN clubLine
  ELSE FileOf(clubLine \o <<"\n">> \o Head(lines), Tail(lines))

idleVars ==
  <<field, distanceInfo, content, parseResult, currentYear, checkedRow, catalog, matchResult>>

-----------------------------------------------------------------------------
(* Specification of the export from a settled state of App                  *)

\* the state after a meet file and a UNI_p file were read
InitBuild ==
  /\ DistanceIdle
  /\ ParseIdle
  /\ MatchIdle
  /\ \E file \in BuildMeets :
       /\ lenexSourceXml = <<readLenexFile(file).lenexSourceXml>>
       /\ lenexSummary = readLenexFile(file).lenexSummary
  /\ errorMessage = << >>
  /\ uniPEncoding = "iso-8859-1"
  /\ \E n \in 0..MaxBuildRows :
       \E l \in [1..n -> BuildLines] :
         /\ uniPSourceFile = <<FileOf(<<"C">>, l)>>
         /\ uniPClubName = parseUniPFile(FileOf(<<"C">>, l), "iso-8859-1").clubName
         /\ uniPRows = parseUniPFile(FileOf(<<"C">>, l), "iso-8859-1").rows
  /\ uniPErrorMessage = << >>
  /\ conversionWarning = << >>
  /\ conversionError = << >>
  /\ pendingLenex = {}
  /\ pendingUniP = {}
  /\ download = NotRun

\* a click on the export button, which is disabled without a meet or rows
onDownloadEntriesClick ==
  /\ lenexSourceXml # << >>
  /\ Len(uniPRows) > 0
  /\ LET eventsByNumber == lenexEventsByNumber(lenexSummary)
         mergedIssues == mergedIssuesByRowKey(uniPRows, eventsByNumber,
                                              lenexSummary # NoLenex, currentYear)
         rows == exportableRows(uniPRows, mergedIssues)
         skippedRowsWithIssues == Len(uniPRows) - Len(rows)
         built == buildLenexEntriesXml(lenexSourceXml[1],
                                       IF uniPClubName # << >> THEN uniPClubName
                                                               ELSE TxtUnknownClub,
                                       rows, eventsByNumber, currentYear)
         totalSkipped == skippedRowsWithIssues + built.skippedDuringBuild
     IN  IF lenexSourceXml = << >> \/ lenexSummary = NoLenex
           THEN /\ conversionError' =
                     <<Issue("Upload a Lenex meet definition before exporting entries.", << >>)>>
                /\ conversionWarning' = << >>
                /\ download' = NotRun
         ELSE IF Len(rows) = 0
           THEN /\ conversionError' = << >>
                /\ conversionWarning' = <<Issue("No valid UNI_p entries to export.", << >>)>>
                /\ download' = NotRun
         ELSE IF IsThrown(built)
           THEN /\ conversionError' = <<Issue(built.message, << >>)>>
                /\ conversionWarning' = << >>
                /\ download' = NotRun
         ELSE /\ conversionError' = << >>
              /\ conversionWarning' =
                   IF totalSkipped > 0
                     THEN <<Issue("Skipped entries with issues.", String(totalSkipped))>>
                     ELSE << >>
              /\ download' = built.xml
  /\ UNCHANGED <<idleVars, lenexVars, uniPVars, uniPEncoding, pendingLenex, pendingUniP>>

NextBuild == onDownloadEntriesClick

\* the CLUB that the export put into the first meet
ExportedClub == download.meet.clubs[1][1]

SpecBuild == InitBuild /\ [][NextBuild]_vars

\* the line numbers of the rows whose ENTRY elements a list of ATHLETE or
\* RELAY elements holds
EntryLines(elements) ==
  UNION {{elements[i].entries[e].row : e \in 1..Len(elements[i].entries)} :
           i \in 1..Len(elements)}

\* the row on a line of the uploaded file
RowOfLine(n) == uniPRows[CHOOSE i \in 1..Len(uniPRows) : uniPRows[i].lineNumber = n]

\* last name, first name, gender and inferred birth year, << >> for a birth
\* year that cannot be determined
IdentityOf(r) == <<r.lastName, r.firstName, r.gender, inferBirthYear(r, currentYear)>>

\* the position of the ATHLETE element that holds the ENTRY of a line
AthleteOfLine(n) ==
  CHOOSE a \in 1..Len(ExportedClub.athletes) :
    \E e \in 1..Len(ExportedClub.athletes[a].entries) :
      ExportedClub.athletes[a].entries[e].row = n

\* the lines of the individual rows that produced an ENTRY
IndividualLines ==
  {n \in EntryLines(ExportedClub.athletes) : RowOfLine(n).relayCount <= 1}

\* the issues of a row: those of the parser and those of the validation
\* against the loaded meet
IsIssueFree(r) ==
  /\ r.issues = << >>
  /\ validateRowAgainstLenex(r, lenexEventsByNumber(lenexSummary),
                             lenexSummary # NoLenex, currentYear) = << >>

\* C7: in an exported file, two individual rows that produced entries are in
\* the same ATHLETE element exactly if they agree on last name, first name,
\* gender and inferred birth year; there are as many ATHLETE elements as
\* distinct such tuples, and each ATHLETE has one ENTRY per row of its tuple.
C7_AthleteIdentity ==
  download # NotRun =>
    LET athletes == ExportedClub.athletes
    IN  /\ \A m, n \in IndividualLines :
             (AthleteOfLine(m) = AthleteOfLine(n))
             <=> (IdentityOf(RowOfLine(m)) = IdentityOf(RowOfLine(n)))
        /\ Len(athletes) = Cardinality({IdentityOf(RowOfLine(n)) : n \in IndividualLines})
        /\ \A a \in 1..Len(athletes) :
             Len(athletes[a].entries) =
               Cardinality({n \in IndividualLines :
                              IdentityOf(RowOfLine(n))
                              = IdentityOf(RowOfLine(athletes[a].entries[1].row))})

\* the positions in uniPRows of the relay rows that reach the builder and
\* have a winning event
RelayRowsWithWinner ==
  {i \in 1..Len(uniPRows) :
     /\ uniPRows[i].relayCount > 1
     /\ IsIssueFree(uniPRows[i])
     /\ OpenPositionsOf(lenexSummary, uniPRows[i]) # {}}

\* C8: in an exported file, every relay row with a winning event has its own
\* RELAY element, each RELAY element holds exactly one ENTRY, no ATHLETE
\* element holds the ENTRY of a relay row, and there are as many RELAY
\* elements as relay rows with a winning event.
C8_OneRelayPerRelayRow ==
  download # NotRun =>
    LET relays == ExportedClub.relays
    IN  /\ \A i \in RelayRowsWithWinner :
             Cardinality({k \in 1..Len(relays) :
                            uniPRows[i].lineNumber \in EntryLines(<<relays[k]>>)}) = 1
        /\ \A k \in 1..Len(relays) : Len(relays[k].entries) = 1
        /\ \A n \in EntryLines(ExportedClub.athletes) : RowOfLine(n).relayCount <= 1
        /\ Len(relays) = Cardinality(RelayRowsWithWinner)

\* two relay rows of one team name were exported
C8_Witness ==
  /\ download # NotRun
  /\ Len(ExportedClub.relays) = 2
  /\ ExportedClub.relays[1].name = ExportedClub.relays[2].name
  /\ Cardinality(RelayRowsWithWinner) = 2

\* what the export was built from
ExportCatalog == lenexEventsByNumber(lenexSummary)

ExportRows ==
  exportableRows(uniPRows,
                 mergedIssuesByRowKey(uniPRows, ExportCatalog, lenexSummary # NoLenex,
                                      currentYear))

ExportClubName == IF uniPClubName # << >> THEN uniPClubName ELSE TxtUnknownClub

ClubsOf(doc) ==
  LET meets == <<doc.meet>> \o doc.otherMeets
  IN  UNION {UNION {{meets[m].clubs[c][k] : k \in 1..Len(meets[m].clubs[c])} :
                      c \in 1..Len(meets[m].clubs)} :
               m \in 1..Len(meets)}

\* building again from the exported document gives the exported document
RebuildIsIdentity ==
  download # NotRun =>
    buildLenexEntriesXml(download, ExportClubName, ExportRows, ExportCatalog,
                         currentYear).xml = download

\* C15: building from the exported document with the same club name, rows
\* and catalog gives the exported document again, and no CLUB of the base
\* document is in the exported document.
C15_MergeIsIdempotent ==
  /\ RebuildIsIdentity
  /\ download # NotRun => ClubsOf(download) \cap ClubsOf(lenexSourceXml[1]) = {}

\* the years that a second run of the pipeline can read from the clock
LaterYears == {currentYear, currentYear + 1}

\* C16: a second run on the same registration rows and the same meet
\* document gives the same issue lists, the same exported rows and the same
\* document with the same athletes and relays, whenever it runs.
C16_Determinism ==
  download # NotRun =>
    \A year \in LaterYears :
      LET mergedIssues == mergedIssuesByRowKey(uniPRows, ExportCatalog,
                                               lenexSummary # NoLenex, year)
          rows == exportableRows(uniPRows, mergedIssues)
      IN  /\ mergedIssues = mergedIssuesByRowKey(uniPRows, ExportCatalog,
                                                 lenexSummary # NoLenex, currentYear)
          /\ rows = ExportRows
          /\ buildLenexEntriesXml(lenexSourceXml[1], ExportClubName, rows, ExportCatalog,
                                  year).xml = download

RECURSIVE EntryCount(_)
EntryCount(elements) ==
  IF elements = << >> THEN 0
  ELSE Len(Head(elements).entries) + EntryCount(Tail(elements))

\* the line numbers of the rows with an ENTRY in the exported roster
EnteredLines == EntryLines(ExportedClub.athletes) \cup EntryLines(ExportedClub.relays)

\* the line numbers of the rows kept from the export for their issues
ExcludedLines ==
  {uniPRows[i].lineNumber : i \in {j \in 1..Len(uniPRows) :
                                     \A k \in 1..Len(ExportRows) : ExportRows[k] # uniPRows[j]}}

\* the line numbers of the exportable rows without a winning event
SkippedLines ==
  {ExportRows[k].lineNumber : k \in {j \in 1..Len(ExportRows) :
       findMatchingLenexEvent(ExportRows[j], ExportCatalog) = NoEvent}}

\* C18: after an export that produced a document every parsed row has an
\* ENTRY, or was excluded for its issues, or was skipped for lack of a winning
\* event, and is counted in exactly one of the three; the warning is the one
\* message with the number of excluded and skipped rows when there are such
\* rows, and absent otherwise.
C18_SkipAccounting ==
  download # NotRun =>
    LET entries == EntryCount(ExportedClub.athletes) + EntryCount(ExportedClub.relays)
        totalSkipped == Cardinality(ExcludedLines) + Cardinality(SkippedLines)
    IN  /\ entries + Cardinality(ExcludedLines) + Cardinality(SkippedLines) = Len(uniPRows)
        /\ entries = Cardinality(EnteredLines)
        /\ EnteredLines \cup ExcludedLines \cup SkippedLines =
             {uniPRows[i].lineNumber : i \in 1..Len(uniPRows)}
        /\ EnteredLines \cap ExcludedLines = {}
        /\ EnteredLines \cap SkippedLines = {}
        /\ ExcludedLines \cap SkippedLines = {}
        /\ conversionWarning =
             IF totalSkipped > 0
               THEN <<Issue("Skipped entries with issues.", String(totalSkipped))>>
               ELSE << >>

\* an export of a file with a row excluded for its issues and a row skipped
\* for lack of a winning event
C18_Witness ==
  /\ download # NotRun
  /\ Cardinality(ExcludedLines) = 1
  /\ Cardinality(SkippedLines) = 1
  /\ conversionWarning = <<Issue("Skipped entries with issues.", <<"2">>)>>

-----------------------------------------------------------------------------
(* Specification of App: uploads, encoding changes and exports              *)

LenexFiles == {AgeMeet, BrokenFile}

\* a file with a row for event 5, a row of unknown stroke for a missing event
\* and a relay row; a file whose club and swimmer names hold bytes above 0x7F;
\* a file of blank lines
UniPFiles ==
  {FileOf(<<"C">>,
          <<LineOf(<<"5">>, Txt100, TxtFR, <<"A">>, <<"C">>, TxtM05, Txt2005),
            LineOf(<<"9">>, Txt100, <<"X", "X">>, <<"A">>, <<"C">>, TxtM05, Txt2005),
            LineOf(<<"7">>, TxtRelay, TxtFR, <<"T">>, << >>, TxtM05, << >>)>>),
   FileOf(<<"C", "C3", "85">>,
          <<LineOf(<<"6">>, Txt50, TxtFR, <<"C5">>, <<"C">>, TxtM05, Txt2005)>>),
   <<" ", "\n">>}

Encodings == {"iso-8859-1", "utf-8"}

MaxPending == 3

Init ==
  /\ DistanceIdle
  /\ ParseIdle
  /\ MatchIdle
  /\ AppIdle

\* the cleanup of the effect: the reload it started is cancelled
Cancelled(reads) ==
  {IF p.kind = "reload" THEN [p EXCEPT !.cancelled = TRUE] ELSE p : p \in reads}

Read(kind, file, encoding) ==
  [kind |-> kind, file |-> file, encoding |-> encoding, cancelled |-> FALSE]

\* handleFile up to its await; uniPSourceFile becomes null, so the effect is
\* cleaned up and starts no reload
handleFile ==
  \E file \in LenexFiles :
    /\ Cardinality(pendingLenex) + Cardinality(pendingUniP) < MaxPending
    /\ errorMessage' = << >>
    /\ lenexSummary' = NoLenex
    /\ lenexSourceXml' = << >>
    /\ uniPClubName' = << >>
    /\ uniPRows' = << >>
    /\ uniPErrorMessage' = << >>
    /\ conversionWarning' = << >>
    /\ conversionError' = << >>
    /\ uniPSourceFile' = << >>
    /\ pendingLenex' = pendingLenex \cup {file}
    /\ pendingUniP' = Cancelled(pendingUniP)
    /\ download' = NotRun
    /\ UNCHANGED <<idleVars, uniPEncoding>>

\* handleFile after its await
handleFileResumes ==
  \E file \in pendingLenex :
    LET read == readLenexFile(file)
    IN  /\ pendingLenex' = pendingLenex \ {file}
        /\ IF IsThrown(read)
             THEN /\ errorMessage' = <<Issue(read.message, << >>)>>
                  /\ UNCHANGED <<lenexSourceXml, lenexSummary>>
             ELSE /\ lenexSourceXml' = <<read.lenexSourceXml>>
                  /\ lenexSummary' = read.lenexSummary
                  /\ UNCHANGED errorMessage
        /\ download' = NotRun
        /\ UNCHANGED <<idleVars, uniPVars, uniPEncoding, conversionWarning, conversionError,
                       pendingUniP>>

\* handleUniPFile up to its await; uniPSourceFile changes, so the effect is
\* cleaned up and starts a reload of the new file
handleUniPFile ==
  \E file \in UniPFiles :
    /\ Cardinality(pendingLenex) + Cardinality(pendingUniP) + 2 <= MaxPending
    /\ uniPErrorMessage' = << >>
    /\ conversionWarning' = << >>
    /\ conversionError' = << >>
    /\ uniPClubName' = << >>
    /\ uniPRows' = << >>
    /\ uniPSourceFile' = <<file>>
    /\ pendingUniP' = Cancelled(pendingUniP)
                      \cup {Read("handleUniPFile", file, uniPEncoding),
                            Read("reload", file, uniPEncoding)}
    /\ download' = NotRun
    /\ UNCHANGED <<idleVars, lenexVars, uniPEncoding, pendingLenex>>

\* handleUniPFile after its await
handleUniPFileResumes ==
  \E p \in pendingUniP :
    LET parsed == parseUniPFile(p.file, p.encoding)
    IN  /\ p.kind = "handleUniPFile"
        /\ pendingUniP' = pendingUniP \ {p}
        /\ IF IsThrown(parsed)
             THEN /\ uniPErrorMessage' = <<Issue(parsed.message, << >>)>>
                  /\ UNCHANGED <<uniPClubName, uniPRows>>
             ELSE /\ uniPClubName' = parsed.clubName
                  /\ uniPRows' = parsed.rows
                  /\ UNCHANGED uniPErrorMessage
        /\ download' = NotRun
        /\ UNCHANGED <<idleVars, lenexVars, uniPEncoding, uniPSourceFile, conversionWarning,
                       conversionError, pendingLenex>>

\* the effect's reload after its await
reloadResumes ==
  \E p \in pendingUniP :
    LET parsed == parseUniPFile(p.file, p.encoding)
    IN  /\ p.kind = "reload"
        /\ pendingUniP' = pendingUniP \ {p}
        /\ IF p.cancelled
             THEN UNCHANGED <<uniPClubName, uniPRows, uniPErrorMessage, conversionWarning,
                              conversionError>>
             ELSE IF IsThrown(parsed)
               THEN /\ uniPErrorMessage' = <<Issue(parsed.message, << >>)>>
                    /\ UNCHANGED <<uniPClubName, uniPRows, conversionWarning, conversionError>>
               ELSE /\ uniPErrorMessage' = << >>
                    /\ conversionWarning' = << >>
                    /\ conversionError' = << >>
                    /\ uniPClubName' = parsed.clubName
                    /\ uniPRows' = parsed.rows
        /\ download' = NotRun
        /\ UNCHANGED <<idleVars, lenexVars, uniPEncoding, uniPSourceFile, pendingLenex>>

\* the encoding select; with a source file, the effect is cleaned up and
\* starts a reload in the new encoding
setUniPEncoding ==
  \E encoding \in Encodings \ {uniPEncoding} :
    /\ uniPSourceFile # << >> =>
         Cardinality(pendingLenex) + Cardinality(pendingUniP) < MaxPending
    /\ uniPEncoding' = encoding
    /\ pendingUniP' =
         IF uniPSourceFile # << >>
           THEN Cancelled(pendingUniP) \cup {Read("reload", uniPSourceFile[1], encoding)}
           ELSE pendingUniP
    /\ download' = NotRun
    /\ UNCHANGED <<idleVars, lenexVars, uniPVars, conversionWarning, conversionError,
                   pendingLenex>>

Next ==
  \/ handleFile
  \/ handleFileResumes
  \/ handleUniPFile
  \/ handleUniPFileResumes
  \/ reloadResumes
  \/ setUniPEncoding
  \/ onDownloadEntriesClick

Spec == Init /\ [][Next]_vars

\* C2: the file of an export holds an ENTRY only for rows of the current
\* upload that have neither parse-time issues nor cross-validation issues
\* against the loaded meet, and every ATHLETE and RELAY element in it holds
\* such an ENTRY; this after any sequence of uploads and encoding changes.
C2_OnlyIssueFreeRowsExported ==
  download # NotRun =>
    /\ \A n \in EntryLines(ExportedClub.athletes) \cup EntryLines(ExportedClub.relays) :
         \E i \in 1..Len(uniPRows) :
           uniPRows[i].lineNumber = n /\ IsIssueFree(uniPRows[i])
    /\ \A a \in 1..Len(ExportedClub.athletes) : Len(ExportedClub.athletes[a].entries) >= 1
    /\ \A k \in 1..Len(ExportedClub.relays) : Len(ExportedClub.relays[k].entries) >= 1

\* an export that left out a row with a parse-time issue and a row that has
\* a winning event but a cross-validation issue
C2_Witness ==
  /\ download # NotRun
  /\ \E i \in 1..Len(uniPRows) : uniPRows[i].issues # << >>
  /\ \E i \in 1..Len(uniPRows) :
       /\ uniPRows[i].issues = << >>
       /\ ~IsIssueFree(uniPRows[i])
       /\ OpenPositionsOf(lenexSummary, uniPRows[i]) # {}
       /\ uniPRows[i].lineNumber
            \notin EntryLines(ExportedClub.athletes) \cup EntryLines(ExportedClub.relays)

-----------------------------------------------------------------------------
(* Specification of parseUniP on files of one registration line             *)

\* individual and relay lines for event 5 in every stroke code and an unknown
\* one, with field 8 empty, a birth year, para classes of the three prefixes
\* (one in lower case, one above 15) or a relay class
RowLines ==
  {LineOf(<<"5">>, dist, st, <<"A">>, <<"C">>, f7, f8) :
     dist \in {Txt100, TxtRelay},
     st \in {TxtFR, <<"B", "R">>, <<"R", "Y">>, <<"B", "U">>, <<"I", "M">>,
             <<"L", "M">>, <<"X", "X">>},
     f7 \in {<<"M", "6", "5">>, <<"K", "J", "R">>},
     f8 \in {<< >>, Txt2005, <<"S", "9">>, <<"S", "B", "7">>, <<"S", "M", "1", "5">>,
             <<"s", "b", "7">>, <<"S", "1", "6">>, <<"J", "U", "N", "I", "O", "R">>}}

InitRow ==
  /\ \E line \in RowLines : content = FileOf(<<"C">>, <<line>>)
  /\ parseResult = NotRun
  /\ DistanceIdle
  /\ MatchIdle
  /\ AppIdle

NextRow == ApplyParseUniP

SpecRow == InitRow /\ [][NextRow]_vars

\* a para class: S, SB or SM followed by a number from 1 to 15
ParaClasses ==
  {p \o String(n) : p \in {<<"S">>, <<"S", "B">>, <<"S", "M">>}, n \in 1..15}

\* the prefix of a para class
PrefixOf(class) ==
  IF Len(class) >= 2 /\ class[2] = "B" THEN "SB"
  ELSE IF Len(class) >= 2 /\ class[2] = "M" THEN "SM"
  ELSE "S"

\* the prefix expected for a resolved stroke
ExpectedPrefix(stroke) ==
  CASE stroke \in {"FREE", "BACK", "FLY"} -> "S"
    [] stroke = "BREAST" -> "SB"
    [] stroke = "MEDLEY" -> "SM"

\* C11: a non-relay row with a known stroke and a valid para class in
\* birthYearOrClass has the prefix-mismatch issue exactly if the prefix of the
\* class differs from the one expected for the resolved stroke (S for FREE,
\* BACK and FLY, SB for BREAST, SM for MEDLEY); a relay row never has it.
C11_ParaPrefixCheck ==
  parseResult # NotRun =>
    LET r == parseResult.rows[1]
        flagged == HasIssue(r.issues, "Invalid para class for stroke (expected class)")
    IN  /\ (r.relayCount <= 1 /\ r.stroke # "" /\ r.birthYearOrClass \in ParaClasses)
             => (flagged <=> PrefixOf(r.birthYearOrClass) # ExpectedPrefix(r.stroke))
        /\ r.relayCount > 1 => ~flagged

\* C12: an empty field 8 adds no issue: no row has the issue that field 8 is
\* missing, and a row whose other fields are valid has no issue at all.
C12_Field8IsOptional ==
  parseResult # NotRun =>
    LET r == parseResult.rows[1]
    IN  /\ ~HasIssue(r.issues, "Field 8 (birth year/class) is missing")
        /\ (r.birthYearOrClass = << >> /\ r.stroke # "") => r.issues = << >>

-----------------------------------------------------------------------------
(* Specification of the age checks of one row against one meet              *)

Date2025 == <<"2", "0", "2", "5", "-", "0", "1", "-", "0", "2">>

TxtJuniorGroup == <<" ", "J", "U", "N", "I", "O", "R">>

\* events with number 5 over 100 m and 4 x 50 m freestyle for men, and one
\* over 100 m backstroke: their rounds, the dates of their sessions (one
\* session without a date) and their age groups
AgeTemplates ==
  {[shape |-> <<1, 100>>, stroke |-> "FREE", round |-> "PRE", date |-> Date2024,
    ageGroups |-> << >>],
   [shape |-> <<1, 100>>, stroke |-> "FREE", round |-> "PRE", date |-> Date2024,
    ageGroups |-> <<[agemin |-> 30, agemax |-> 40, name |-> <<"A">>]>>],
   [shape |-> <<1, 100>>, stroke |-> "FREE", round |-> "PRE", date |-> Date2025,
    ageGroups |-> <<[agemin |-> 30, agemax |-> 40, name |-> <<"A">>],
                    [agemin |-> -1, agemax |-> 19, name |-> <<"B">>]>>],
   [shape |-> <<1, 100>>, stroke |-> "FREE", round |-> "FIN", date |-> Date2025,
    ageGroups |-> <<[agemin |-> 20, agemax |-> -1, name |-> <<"S">>]>>],
   [shape |-> <<1, 100>>, stroke |-> "FREE", round |-> "FIN", date |-> Date2024,
    ageGroups |-> << >>],
   [shape |-> <<1, 100>>, stroke |-> "FREE", round |-> "PRE", date |-> << >>,
    ageGroups |-> <<[agemin |-> 30, agemax |-> 40, name |-> <<"A">>]>>],
   [shape |-> <<1, 100>>, stroke |-> "BACK", round |-> "PRE", date |-> Date2025,
    ageGroups |-> << >>],
   [shape |-> <<4, 50>>, stroke |-> "FREE", round |-> "PRE", date |-> Date2024,
    ageGroups |-> <<[agemin |-> -1, agemax |-> 18, name |-> TxtJuniorGroup]>>],
   [shape |-> <<4, 50>>, stroke |-> "FREE", round |-> "PRE", date |-> Date2024,
    ageGroups |-> <<[agemin |-> -1, agemax |-> -1, name |-> <<"A">>]>>],
   [shape |-> <<4, 50>>, stroke |-> "FREE", round |-> "FIN", date |-> Date2024,
    ageGroups |-> <<[agemin |-> -1, agemax |-> 18, name |-> TxtJuniorGroup]>>],
   [shape |-> <<4, 50>>, stroke |-> "FREE", round |-> "PRE", date |-> Date2024,
    ageGroups |-> << >>]}

MaxAgeEvents == 2

\* a meet with one session per event
AgeSummaryOf(l) ==
  [name |-> <<"M">>,
   sessions |->
     [i \in 1..Len(l) |->
        [number |-> String(i), date |-> l[i].date,
         events |-> <<EventOf([number |-> <<"5">>, round |-> l[i].round,
                               shape |-> l[i].shape, style |-> <<l[i].stroke, "M">>],
                              i, l[i].date, l[i].ageGroups)>>]],
   totalEvents |-> Len(l)]

\* swimmers born in 2005 (by field 8 or by field 7) and in 1985, a swimmer
\* without a year of birth, junior relays by field 7 and by field 8, and a
\* senior relay
AgeLines ==
  {LineOf(<<"5">>, Txt100, TxtFR, <<"A">>, <<"C">>, TxtM05, Txt2005),
   LineOf(<<"5">>, Txt100, TxtFR, <<"A">>, <<"C">>, TxtM05, <<"S", "9">>),
   LineOf(<<"5">>, Txt100, TxtFR, <<"A">>, <<"C">>, <<"M", "S", "R">>, <<"S", "9">>),
   LineOf(<<"5">>, Txt100, TxtFR, <<"A">>, <<"C">>, <<"M", "8", "5">>, <<"1", "9", "8", "5">>),
   LineOf(<<"5">>, TxtRelay, TxtFR, <<"T">>, << >>, <<"M", "J", "R">>, << >>),
   LineOf(<<"5">>, TxtRelay, TxtFR, <<"T">>, << >>, TxtM05, <<"J", "U", "N", "I", "O", "R">>),
   LineOf(<<"5">>, TxtRelay, TxtFR, <<"T">>, << >>, <<"M", "S", "R">>, << >>)}

InitAge ==
  /\ currentYear = YearNow
  /\ \E line \in AgeLines : checkedRow = parseRow(line, 1)
  /\ \E n \in 0..MaxAgeEvents :
       \E l \in [1..n -> AgeTemplates] : catalog = AgeSummaryOf(l)
  /\ matchResult = NotRun
  /\ DistanceIdle
  /\ ParseIdle
  /\ AppIdle

NextAge == ValidateAndMatch

SpecAge == InitAge /\ [][NextAge]_vars

\* the positions of the candidates that the age checks consider
ConsideredPositions == IF OpenPositions # {} THEN OpenPositions ELSE CompatiblePositions

FirstConsidered ==
  CatalogEvents[CHOOSE p \in ConsideredPositions : \A q \in ConsideredPositions : p <= q]

HasYear(date) == Len(date) >= 4 /\ IsDigits(SubSeq(date, 1, 4))

\* the year of birth of an individual row: field 8 when it is a year, else
\* the two digits of field 7 with their century
BirthYearOf(r) == inferBirthYear(r, currentYear)

AgeOf(r) == Number(SubSeq(FirstConsidered.sessionDate, 1, 4)) - Number(BirthYearOf(r))

AgeFits(age, event) ==
  \/ event.ageGroups = << >>
  \/ \E g \in 1..Len(event.ageGroups) :
       /\ event.ageGroups[g].agemin = -1 \/ event.ageGroups[g].agemin <= age
       /\ event.ageGroups[g].agemax = -1 \/ age <= event.ageGroups[g].agemax

TxtAgeIssue == "Invalid age group (age not allowed for event)"

TxtJuniorIssue == "Missing JUNIOR age group in Lenex event for junior relay"

\* the class of a relay row is junior, by field 8 or by field 7
HasJuniorClass(r) == IsJuniorName(r.birthYearOrClass) \/ IsJuniorName(r.ageGroupCode)

\* C20: a relay row of class junior, given in field 8 or in field 7, with a
\* compatible candidate gets the missing-age-group issue iff no considered
\* candidate has an age group named junior.
C20_JuniorRelayAgeGroup ==
  ( /\ matchResult # NotRun
    /\ checkedRow.relayCount > 1
    /\ HasJuniorClass(checkedRow)
    /\ CompatiblePositions # {} )
      => (HasIssue(matchResult.issues, TxtJuniorIssue)
            <=> ~\E p \in ConsideredPositions :
                   \E g \in 1..Len(CatalogEvents[p].ageGroups) :
                     IsJuniorName(CatalogEvents[p].ageGroups[g].name))

-----------------------------------------------------------------------------
(* Specification of the export of one swimmer in a given year               *)

\* the years that new Date().getFullYear() gives when the export runs
ClockYears == {2024, 2099, 2100, 2105}

\* a swimmer for event 5 with a two-digit year or a class in field 7 and a
\* year or a para class in field 8
BirthLines ==
  {LineOf(<<"5">>, Txt100, TxtFR, <<"A">>, <<"C">>, f7, f8) :
     f7 \in {<<"M", "0", "0">>, TxtM05, <<"M", "2", "4">>, <<"M", "2", "5">>,
             <<"M", "6", "5">>, <<"M", "9", "9">>, <<"M", "S", "R">>},
     f8 \in {Txt2005, <<"1", "9", "8", "5">>, <<"S", "9">>, <<"S", "M", "3">>}}

InitBirth ==
  /\ DistanceIdle
  /\ ParseIdle
  /\ currentYear \in ClockYears
  /\ checkedRow = NotRun
  /\ catalog = NoLenex
  /\ matchResult = NotRun
  /\ lenexSourceXml = <<readLenexFile(OpenMeet).lenexSourceXml>>
  /\ lenexSummary = readLenexFile(OpenMeet).lenexSummary
  /\ errorMessage = << >>
  /\ uniPEncoding = "iso-8859-1"
  /\ \E line \in BirthLines :
       /\ uniPSourceFile = <<FileOf(<<"C">>, <<line>>)>>
       /\ uniPClubName = parseUniPFile(FileOf(<<"C">>, <<line>>), "iso-8859-1").clubName
       /\ uniPRows = parseUniPFile(FileOf(<<"C">>, <<line>>), "iso-8859-1").rows
  /\ uniPErrorMessage = << >>
  /\ conversionWarning = << >>
  /\ conversionError = << >>
  /\ pendingLenex = {}
  /\ pendingUniP = {}
  /\ download = NotRun

NextBirth == onDownloadEntriesClick

SpecBirth == InitBirth /\ [][NextBirth]_vars

IsFourDigits(text) == Len(text) = 4 /\ IsDigits(text)

IsTwoDigitMarker(ageGroupCode) ==
  /\ Len(ageGroupCode) = 10
  /\ SubSeq(ageGroupCode, 1, 8) = TxtBornYY
  /\ IsDigits(SubSeq(ageGroupCode, 9, 10))

\* yy in the century of the year Y when yy <= Y mod 100, else in the
\* century before
ExpandedYear(yy, Y) ==
  LET century == Y - (Y % 100)
  IN  IF yy > (Y % 100) THEN (century - 100) + yy ELSE century + yy

TxtJanuaryFirst == <<"-", "0", "1", "-", "0", "1">>

\* the birthdate of the exported athlete is: the four-digit year of field 8;
\* else the two digits of field 7 expanded for the current year, a year
\* that is at most the current year and above the current year - 100; else
\* absent
BirthYearInferred ==
  download # NotRun =>
    \A a \in 1..Len(ExportedClub.athletes) :
      LET r == RowOfLine(ExportedClub.athletes[a].entries[1].row)
          birthdate == ExportedClub.athletes[a].birthdate
      IN  IF IsFourDigits(r.birthYearOrClass)
            THEN birthdate = r.birthYearOrClass \o TxtJanuaryFirst
          ELSE IF IsTwoDigitMarker(r.ageGroupCode)
            THEN LET year == ExpandedYear(Number(SubSeq(r.ageGroupCode, 9, 10)), currentYear)
                 IN  /\ birthdate = String(year) \o TxtJanuaryFirst
                     /\ year <= currentYear
                     /\ year > currentYear - 100
          ELSE birthdate = << >>

\* C21: a four-digit year in field 8 is the birth year; otherwise the two
\* digits yy of field 7 give, for the current year Y, the year of the
\* century before when yy > Y mod 100 and of the current century otherwise,
\* a year in Y-99..Y; a row with neither has no birth year.
C21_BirthYearInference == BirthYearInferred

\* the same for the years 2000 to 2099
BirthYearInferredThisCentury == currentYear \in 2000..2099 => BirthYearInferred

-----------------------------------------------------------------------------
(* Specification of the export of swimmers with para classes                *)

\* events 5, 6 and 7 for men over 100 m freestyle, breaststroke and medley
HandicapMeet ==
  MeetFile(<<<<EventElement(<<"5">>, <<"1">>, "M", "PRE", "FREE", <<"1">>, Txt100, << >>),
               EventElement(<<"6">>, <<"2">>, "M", "PRE", "BREAST", <<"1">>, Txt100, << >>),
               EventElement(<<"7">>, <<"3">>, "M", "PRE", "MEDLEY", <<"1">>, Txt100, << >>)>>>>)

\* a swimmer born in 2005 with the year or a para class in field 8, for the
\* three strokes, and a second swimmer
HandicapLines ==
  {LineOf(<<"5">>, Txt100, TxtFR, <<"A">>, <<"C">>, TxtM05, Txt2005),
   LineOf(<<"5">>, Txt100, TxtFR, <<"A">>, <<"C">>, TxtM05, <<"S", "9">>),
   LineOf(<<"5">>, Txt100, TxtFR, <<"A">>, <<"C">>, TxtM05, <<"s", "1", "0">>),
   LineOf(<<"6">>, Txt100, <<"B", "R">>, <<"A">>, <<"C">>, TxtM05, <<"S", "B", "7">>),
   LineOf(<<"7">>, Txt100, <<"I", "M">>, <<"A">>, <<"C">>, TxtM05, <<"S", "M", "3">>),
   LineOf(<<"7">>, Txt100, <<"I", "M">>, <<"A">>, <<"C">>, TxtM05, <<"S", "M", "1", "6">>),
   LineOf(<<"5">>, Txt100, TxtFR, <<"B">>, <<"C">>, TxtM05, <<"S", "5">>)}

MaxHandicapRows == 3

InitHandicap ==
  /\ DistanceIdle
  /\ ParseIdle
  /\ MatchIdle
  /\ lenexSourceXml = <<readLenexFile(HandicapMeet).lenexSourceXml>>
  /\ lenexSummary = readLenexFile(HandicapMeet).lenexSummary
  /\ errorMessage = << >>
  /\ uniPEncoding = "iso-8859-1"
  /\ \E n \in 1..MaxHandicapRows :
       \E l \in [1..n -> HandicapLines] :
         /\ uniPSourceFile = <<FileOf(<<"C">>, l)>>
         /\ uniPClubName = parseUniPFile(FileOf(<<"C">>, l), "iso-8859-1").clubName
         /\ uniPRows = parseUniPFile(FileOf(<<"C">>, l), "iso-8859-1").rows
  /\ uniPErrorMessage = << >>
  /\ conversionWarning = << >>
  /\ conversionError = << >>
  /\ pendingLenex = {}
  /\ pendingUniP = {}
  /\ download = NotRun

NextHandicap == onDownloadEntriesClick

SpecHandicap == InitHandicap /\ [][NextHandicap]_vars

\* the para class of a row, in upper case, or << >>
ParaClassOf(r) ==
  IF toUpperCase(trim(r.birthYearOrClass)) \in ParaClasses
    THEN toUpperCase(trim(r.birthYearOrClass)) ELSE << >>

AttributeOfPrefix(prefix) ==
  CASE prefix = "S" -> "free" [] prefix = "SB" -> "breast" [] prefix = "SM" -> "medley"

\* the level of a para class: what follows its prefix
LevelOf(class) == SubSeq(class, IF PrefixOf(class) = "S" THEN 2 ELSE 3, Len(class))

\* the entries of an athlete whose rows carry a para class for an attribute
ParaEntries(athlete, attribute) ==
  {e \in 1..Len(athlete.entries) :
     LET class == ParaClassOf(RowOfLine(athlete.entries[e].row))
     IN  class # << >> /\ AttributeOfPrefix(PrefixOf(class)) = attribute}

HandicapAttributes == {"free", "breast", "medley"}

\* C22: every exported ATHLETE has at most one HANDICAP; it has one iff a
\* row among its entries carries a valid para class; and each of free,
\* breast and medley holds the level of the last such row with that prefix,
\* or is absent when there is no such row.
C22_HandicapSlot ==
  download # NotRun =>
    \A a \in 1..Len(ExportedClub.athletes) :
      LET athlete == ExportedClub.athletes[a]
      IN  /\ Len(athlete.handicap) <= 1
          /\ athlete.handicap # << >>
               <=> \E attribute \in HandicapAttributes : ParaEntries(athlete, attribute) # {}
          /\ athlete.handicap # << >> =>
               \A attribute \in HandicapAttributes :
                 LET entries == ParaEntries(athlete, attribute)
                 IN  athlete.handicap[1][attribute] =
                       IF entries = {} THEN << >>
                       ELSE LET last == CHOOSE e \in entries : \A f \in entries : f <= e
                            IN  LevelOf(ParaClassOf(RowOfLine(athlete.entries[last].row)))

\* a swimmer entered with class S9, then without a class, then with class
\* S10: the level of free is 10
C22_Witness ==
  /\ download # NotRun
  /\ Len(ExportedClub.athletes) = 1
  /\ Len(ExportedClub.athletes[1].entries) = 3
  /\ ParaClassOf(uniPRows[1]) = <<"S", "9">>
  /\ ParaClassOf(uniPRows[2]) = << >>
  /\ ParaClassOf(uniPRows[3]) = <<"S", "1", "0">>
  /\ ExportedClub.athletes[1].handicap = <<[NoHandicap EXCEPT !.free = <<"1", "0">>]>>

-----------------------------------------------------------------------------
(* Specification of the export of one relay team                            *)

\* event 7 for men's teams over 4 x 50 m freestyle
RelayMeet ==
  MeetFile(<<<<EventElement(<<"7">>, <<"1">>, "M", "PRE", "FREE", <<"4">>, Txt50, << >>)>>>>)

TxtMASTERS == <<"M", "A", "S", "T", "E", "R", "S">>

\* a team with a masters class, another class or two digits in field 7, and
\* nothing, a masters class or another class in field 8
RelayLines ==
  {LineOf(<<"7">>, TxtRelay, TxtFR, <<"T">>, << >>, <<"M">> \o class7, f8) :
     class7 \in {<<"M", "O">>, <<"M", "A">>, <<"M", "B">>, <<"M", "C">>, <<"M", "D">>,
                 <<"M", "E">>, <<"M", "F">>, <<"M", "G">>, <<"M", "H">>, <<"S", "R">>,
                 <<"0", "5">>},
     f8 \in {<< >>, TxtMASTERS \o <<"A">>, TxtMASTERS \o <<"G">>, TxtMASTERS \o <<"O">>,
             TxtMASTERS \o <<"H">>, TxtMASTERS \o <<"N">>, TxtMASTERS \o <<" ", "b">>,
             <<"S", "E", "N", "I", "O", "R">>}}

InitRelay ==
  /\ DistanceIdle
  /\ ParseIdle
  /\ MatchIdle
  /\ lenexSourceXml = <<readLenexFile(RelayMeet).lenexSourceXml>>
  /\ lenexSummary = readLenexFile(RelayMeet).lenexSummary
  /\ errorMessage = << >>
  /\ uniPEncoding = "iso-8859-1"
  /\ \E line \in RelayLines :
       /\ uniPSourceFile = <<FileOf(<<"C">>, <<line>>)>>
       /\ uniPClubName = parseUniPFile(FileOf(<<"C">>, <<line>>), "iso-8859-1").clubName
       /\ uniPRows = parseUniPFile(FileOf(<<"C">>, <<line>>), "iso-8859-1").rows
  /\ uniPErrorMessage = << >>
  /\ conversionWarning = << >>
  /\ conversionError = << >>
  /\ pendingLenex = {}
  /\ pendingUniP = {}
  /\ download = NotRun

NextRelay == onDownloadEntriesClick

SpecRelay == InitRelay /\ [][NextRelay]_vars

\* the total-age bands of the masters relay classes
MastersBands ==
  [letter \in {"O", "A", "B", "C", "D", "E", "F", "G"} |->
     CASE letter = "O" -> <<80, 99>>   [] letter = "A" -> <<100, 119>>
       [] letter = "B" -> <<120, 159>> [] letter = "C" -> <<160, 199>>
       [] letter = "D" -> <<200, 239>> [] letter = "E" -> <<240, 279>>
       [] letter = "F" -> <<280, 319>> [] letter = "G" -> <<320, 359>>]

\* the band of a value that is "Masters <letter>" with a letter that has a
\* band, << >> for any other value
BandOf(value) ==
  LET text == toUpperCase(trim(value))
  IN  IF /\ Len(text) = 9
         /\ SubSeq(text, 1, 8) = TxtMASTERS \o <<" ">>
         /\ text[9] \in DOMAIN MastersBands
        THEN MastersBands[text[9]] ELSE << >>

\* C23: an exported RELAY has the total-age band of the row's class token
\* when that is "Masters <letter>" with a letter in O, A..G, else the band
\* of the row's age-group code when that is, and -1 and -1 in all other
\* cases.
C23_MastersRelayBand ==
  download # NotRun =>
    \A k \in 1..Len(ExportedClub.relays) :
      LET relay == ExportedClub.relays[k]
          r == RowOfLine(relay.entries[1].row)
          band == IF BandOf(r.birthYearOrClass) # << >> THEN BandOf(r.birthYearOrClass)
                  ELSE IF BandOf(r.ageGroupCode) # << >> THEN BandOf(r.ageGroupCode)
                  ELSE <<-1, -1>>
      IN  /\ relay.agetotalmin = NumText(band[1])
          /\ relay.agetotalmax = NumText(band[2])

\* a team of masters class A by field 7 and G by field 8 is exported with
\* the band of G
C23_Witness ==
  /\ download # NotRun
  /\ Len(ExportedClub.relays) = 1
  /\ BandOf(uniPRows[1].ageGroupCode) = <<100, 119>>
  /\ BandOf(uniPRows[1].birthYearOrClass) = <<320, 359>>
  /\ ExportedClub.relays[1].agetotalmin = <<"3", "2", "0">>
  /\ ExportedClub.relays[1].agetotalmax = <<"3", "5", "9">>

\* ---------------------------------------------------------------------
\* Scheduling of the upload shell (C24, C25), under Spec

\* the reads and parses of uploaded files that have started and not resumed
ReadsInFlight == Cardinality(pendingLenex) + Cardinality(pendingUniP)

\* C24: the upload shell performs one file operation at a time: at no point
\* are two read-and-parse operations on uploaded files in flight together,
\* and no upload or re-parse starts while an earlier read is pending.
C24_OneFileOperationAtATime == ReadsInFlight <= 1

\* the rows and club name that the displayed file gives in the selected
\* encoding
LatestParse == parseUniPFile(uniPSourceFile[1], uniPEncoding)

\* C25: latest upload wins: once no read is pending, the stored rows and
\* club name are those parsed from the most recently selected registration
\* file (the displayed one) decoded with the selected encoding; when that
\* file cannot be parsed, no rows of another read are stored.
C25_LatestUploadWins ==
  (ReadsInFlight = 0 /\ uniPSourceFile # << >>) =>
    IF IsThrown(LatestParse)
      THEN uniPRows = << >> /\ uniPClubName = << >>
      ELSE uniPRows = LatestParse.rows /\ uniPClubName = LatestParse.clubName

-----------------------------------------------------------------------------
(* Specification of the export of one row against events with age groups    *)

\* the file of a meet with one session per event, each event with number 5
AgeFileOf(l) ==
  [declaredEncoding |-> "utf-8", wellFormed |-> TRUE, hasMeet |-> TRUE,
   version |-> "3.0", constructor |-> << >>,
   meet |-> [name |-> <<"M">>,
             sessions |->
               [i \in 1..Len(l) |->
                  [number |-> String(i), date |-> l[i].date,
                   events |->
                     <<EventElement(<<"5">>, String(i), "M", l[i].round, l[i].stroke,
                                    String(l[i].shape[1]), String(l[i].shape[2]),
                                    [g \in 1..Len(l[i].ageGroups) |->
                                       AgeGroupElement(NumText(l[i].ageGroups[g].agemin),
                                                       NumText(l[i].ageGroups[g].agemax),
                                                       l[i].ageGroups[g].name)])>>]],
             clubs |-> << >>],
   otherMeets |-> << >>]

InitAgeExport ==
  /\ DistanceIdle
  /\ ParseIdle
  /\ MatchIdle
  /\ \E n \in 0..MaxAgeEvents :
       \E l \in [1..n -> AgeTemplates] :
         /\ lenexSourceXml = <<readLenexFile(AgeFileOf(l)).lenexSourceXml>>
         /\ lenexSummary = readLenexFile(AgeFileOf(l)).lenexSummary
  /\ errorMessage = << >>
  /\ uniPEncoding = "iso-8859-1"
  /\ \E line \in AgeLines :
       /\ uniPSourceFile = <<FileOf(<<"C">>, <<line>>)>>
       /\ uniPClubName = parseUniPFile(FileOf(<<"C">>, <<line>>), "iso-8859-1").clubName
       /\ uniPRows = parseUniPFile(FileOf(<<"C">>, <<line>>), "iso-8859-1").rows
  /\ uniPErrorMessage = << >>
  /\ conversionWarning = << >>
  /\ conversionError = << >>
  /\ pendingLenex = {}
  /\ pendingUniP = {}
  /\ download = NotRun

NextAgeExport == onDownloadEntriesClick

SpecAgeExport == InitAgeExport /\ [][NextAgeExport]_vars

\* the events of the loaded meet with the given eventid
EventsWithId(eventid) ==
  LET flat == FlatEvents(lenexSummary.sessions)
  IN  {flat[i] : i \in {j \in 1..Len(flat) : flat[j].eventId = eventid}}

\* the ENTRY elements of the exported athletes
ExportedAthleteEntries ==
  UNION {{ExportedClub.athletes[a].entries[e] :
            e \in 1..Len(ExportedClub.athletes[a].entries)} :
         a \in 1..Len(ExportedClub.athletes)}

\* C26: for every individual row that produced an ENTRY and has a year of
\* birth, the swimmer's age at the year of the event whose eventid the ENTRY
\* carries lies within an age group of that event, or the event has no age
\* groups.
C26_EntryRespectsAgeRule ==
  download # NotRun =>
    \A entry \in ExportedAthleteEntries :
      \A event \in EventsWithId(entry.eventid) :
        LET r == RowOfLine(entry.row)
        IN  (BirthYearOf(r) # << >> /\ HasYear(event.sessionDate))
              => AgeFits(Number(SubSeq(event.sessionDate, 1, 4)) - Number(BirthYearOf(r)),
                         event)

\* the RELAY elements of the export
ExportedRelays == {ExportedClub.relays[k] : k \in 1..Len(ExportedClub.relays)}

\* C27: for every junior relay row (relay count > 1, age-group code junior)
\* that produced a RELAY, the event whose eventid its ENTRY carries has an
\* age group named junior, and the RELAY's agemax is the maximum age of the
\* first such group.
C27_JuniorRelayHasJuniorEvent ==
  download # NotRun =>
    \A relay \in ExportedRelays :
      \A event \in EventsWithId(relay.entries[1].eventid) :
        LET r == RowOfLine(relay.entries[1].row)
        IN  isJuniorRelay(r)
              => /\ \E g \in 1..Len(event.ageGroups) : IsJuniorName(event.ageGroups[g].name)
                 /\ relay.agemax = getJuniorRelayAgeMax(r, event)

-----------------------------------------------------------------------------
(* Agreement of the validator and the matcher (C28), under SpecMatch        *)

\* the issues of validation that tell of a row without a matching event
MatchingIssues ==
  {"Invalid event", "Invalid length", "Invalid distance", "Invalid style",
   "Invalid gender", "Registration for"}

\* C28: validator and builder agree on matching: when findMatchingLenexEvent
\* returns a winning event for a row, validateRowAgainstLenex reports none of
\* "Invalid event", "Invalid length", "Invalid distance", "Invalid style",
\* "Invalid gender" and "Registration for <ROUND>" for that row.
C28_ValidatorAgreesWithMatcher ==
  (matchResult # NotRun /\ matchResult.event # NoEvent)
    => \A m \in MatchingIssues : ~HasIssue(matchResult.issues, m)

\* a winning event listed after an event with the row's number that differs
\* from the row in stroke or gender, distance or relay count, and no issue
C28_Witness ==
  /\ matchResult # NotRun
  /\ matchResult.event # NoEvent
  /\ matchResult.issues = << >>
  /\ Cardinality(CandidatePositions) = 2
  /\ CompatiblePositions = {2}
  /\ matchResult.event = CatalogEvents[2]

=============================================================================
